---- MODULE Spec2Model ----
(***************************************************************************)
(* PyPlan: the domain graph, the search-space frontier, the scope stores,  *)
(* the execution frame and the solver loop.                                *)
(***************************************************************************)
EXTENDS Integers, Sequences, FiniteSets, TLC

VARIABLES
    domain,        \* Solver.domain._collection: domain node id -> persisted record
    collection,    \* Graph._collection of the graph under work (the search space in a run)
    handles,       \* live Node objects held by a caller of the Graph API
    open_nodes,    \* SearchSpace.open_nodes (node ids, parallel to weights)
    weights,       \* SearchSpace.weights (ascending)
    selector,      \* SearchSpace.selector / Solver.selector
    store_kind,    \* which ScopeStore class the run uses
    init_map,      \* ScopeStore._init: key -> value
    maps,          \* the private mappings made by factory(), by allocation order
    collections,   \* ChainScopeStore.collections: scope id -> chain of mappings
    frame,         \* Frame: node_counter, selected, context and the namespace counters
    solver,        \* Solver: backtrack, max_nodes and the strategies in use
    pc,            \* position of the run inside Solver.eval / step / select
    current_nodes, \* eval's current_nodes: ids of the domain candidates of the next step
    iter,          \* position of the iterator made by get_open_nodes() in select
    pending,       \* the sput calls the running action code has still to make
    result,        \* outcome of the last API call, or the error a run ended with
    hist           \* history of the run or of the API calls, for the properties only

vars == <<domain, collection, handles, open_nodes, weights, selector, store_kind,
          init_map, maps, collections, frame, solver, pc, current_nodes, iter,
          pending, result, hist>>

graphVars == <<collection, handles>>
frontierVars == <<open_nodes, weights, selector>>
storeVars == <<store_kind, init_map, maps, collections>>
runVars == <<domain, frame, solver, pc, current_nodes, iter, pending>>

----------------------------------------------------------------------------
(* Bounds of the model *)

MaxSteps == 3        \* steps of a run explored when max_nodes does not stop it earlier
MaxWrites == 3       \* write / write_global calls explored in one run
MaxOpened == 5       \* open_node calls explored when nothing is closed
MaxWeight == 5       \* weights 1..MaxWeight of the nodes opened when nothing is closed
MaxFrontier == 4     \* nodes made on a bare SearchSpace that is opened and closed
MaxFrontierWeight == 3  \* weights 1..MaxFrontierWeight of those nodes
MaxHandles == 2      \* Node objects a caller of a bare Graph holds
MaxScopes == 3       \* create_scope calls explored on a bare ChainScopeStore
MaxPuts == 2         \* put_record calls explored on a bare ChainScopeStore
MaxAge == 20         \* ages 0..MaxAge given to the two-branch decision domain
MaxBudget == 2       \* max_nodes 0..MaxBudget of the runs checked for termination
MaxDeleteScopes == 2 \* create_scope calls explored on a store whose scopes are deleted
MaxDeletePuts == 1   \* put_record calls explored on that store

----------------------------------------------------------------------------
(* Python values *)

None == 0 - 1000                 \* Python's None where a number may stand
INIT_CONTEXT_ID == -1
ORDER_BY_MAX == "max"
ORDER_BY_MIN == "min"

Keys == {"x", "y"}
RunWeights == {0, 1}             \* weights an arbitrary evaluator hands out

Range(s) == {s[i] : i \in DOMAIN s}

RECURSIVE SetToSeq(_)
\* iteration order of a set of small non-negative ints: ascending
SetToSeq(S) ==
    IF S = {} THEN <<>>
    ELSE LET m == CHOOSE x \in S : \A y \in S : x <= y
         IN <<m>> \o SetToSeq(S \ {m})

Insert(s, i, x) == SubSeq(s, 1, i) \o <<x>> \o SubSeq(s, i + 1, Len(s))
    \* list.insert(i, x), i a 0-based index in 0..len

Pop(s, i) == SubSeq(s, 1, i) \o SubSeq(s, i + 2, Len(s))
    \* list.pop(i), i a 0-based index in 0..len-1

----------------------------------------------------------------------------
(* Node and NodeSerializer *)

Node(node_id, in_nodes_ids, out_nodes_ids) ==
    [node_id |-> node_id, in_nodes_ids |-> in_nodes_ids, out_nodes_ids |-> out_nodes_ids,
     reference |-> None, weight |-> None, context_id |-> None,
     test |-> "", action |-> ""]

NoNode == Node(None, {}, {})     \* frame.selected = None

\* NodeSerializer.to_data: the serialized fields, then id and neighbour lists
ToData(node) ==
    [node_id |-> node.node_id,
     in_nodes_ids |-> node.in_nodes_ids,
     out_nodes_ids |-> node.out_nodes_ids,
     reference |-> node.reference,
     weight |-> node.weight,
     context_id |-> node.context_id,
     test |-> node.test,
     action |-> node.action]

\* NodeSerializer.from_data(graph, **record)
FromData(data) ==
    [Node(data.node_id, data.in_nodes_ids, data.out_nodes_ids)
        EXCEPT !.reference = data.reference,
               !.weight = data.weight,
               !.context_id = data.context_id,
               !.test = data.test,
               !.action = data.action]

\* MemoryCollectionMap.next_id
NextId(coll) == Cardinality(DOMAIN coll)

\* MemoryCollectionMap.put_record / insert_record
PutRecord(coll, key, record) ==
    [k \in DOMAIN coll \cup {key} |-> IF k = key THEN record ELSE coll[k]]

\* Graph.get_node on a stored id
GetNode(coll, node_id) == FromData(coll[node_id])

----------------------------------------------------------------------------
(* SearchSpace: the sorted frontier *)

RECURSIVE BisectRightFrom(_, _, _, _)
\* bisect.bisect_right(a, x): lo, hi are 0-based, a[mid] is a[mid + 1] here
BisectRightFrom(a, x, lo, hi) ==
    IF lo < hi
    THEN LET mid == (lo + hi) \div 2
         IN IF x < a[mid + 1] THEN BisectRightFrom(a, x, lo, mid)
            ELSE BisectRightFrom(a, x, mid + 1, hi)
    ELSE lo

RECURSIVE BisectLeftFrom(_, _, _, _)
\* bisect.bisect_left(a, x)
BisectLeftFrom(a, x, lo, hi) ==
    IF lo < hi
    THEN LET mid == (lo + hi) \div 2
         IN IF a[mid + 1] < x THEN BisectLeftFrom(a, x, mid + 1, hi)
            ELSE BisectLeftFrom(a, x, lo, mid)
    ELSE lo

BisectRight(a, x) == BisectRightFrom(a, x, 0, Len(a))
BisectLeft(a, x) == BisectLeftFrom(a, x, 0, Len(a))

\* an open_node that appends, whatever the weight
OpenIndexAppend(sel, ws, weight) == Len(ws)

\* an open_node that bisects to the right under both selectors
OpenIndexBisectRight(sel, ws, weight) == BisectRight(ws, weight)

\* an open_node that bisects to the left under both selectors
OpenIndexBisectLeft(sel, ws, weight) == BisectLeft(ws, weight)

\* SearchSpace.open_node: the index chosen for the new entry
OpenIndex(sel, ws, weight) ==
    IF sel = ORDER_BY_MAX THEN BisectRight(ws, weight) ELSE BisectLeft(ws, weight)

\* an open_node that inserts the id at the index and appends the weight
OpenNodeAppendsWeight(sel, ons, ws, node) ==
    LET index == OpenIndex(sel, ws, node.weight)
    IN [open_nodes |-> Insert(ons, index, node.node_id),
        weights |-> Append(ws, node.weight)]

\* SearchSpace.open_node: both lists after the insertion
OpenNode(sel, ons, ws, node) ==
    LET index == OpenIndex(sel, ws, node.weight)
    IN [open_nodes |-> Insert(ons, index, node.node_id),
        weights |-> Insert(ws, index, node.weight)]

\* a scan that starts again at the front when it runs past the end
ScanForIdWraps(ons, node_id, index) ==
    LET found == {i \in index..(Len(ons) - 1) : ons[i + 1] = node_id}
    IN IF found # {} THEN CHOOSE i \in found : \A j \in found : i <= j
       ELSE IF ons = <<>> THEN Len(ons) ELSE 0

RECURSIVE ScanForId(_, _, _)
\* the while loop of close_node; Len(ons) stands for the IndexError of a scan past the end
ScanForId(ons, node_id, index) ==
    IF index >= Len(ons) THEN Len(ons)
    ELSE IF ons[index + 1] = node_id THEN index
    ELSE ScanForId(ons, node_id, index + 1)

\* a close_node that pops the first entry of the node's weight without looking at ids
CloseIndexNoScan(ons, ws, node) ==
    IF BisectLeft(ws, node.weight) < Len(ons) THEN BisectLeft(ws, node.weight) ELSE Len(ons)

\* SearchSpace.close_node: the index whose entries are popped
CloseIndex(ons, ws, node) == ScanForId(ons, node.node_id, BisectLeft(ws, node.weight))

\* a close_node that finds the entry and leaves it in the frontier
CloseNodeKeeps(ons, ws, node) ==
    [raised |-> CloseIndex(ons, ws, node) >= Len(ons), open_nodes |-> ons, weights |-> ws]

\* SearchSpace.close_node: both lists after the call, and whether it raised IndexError
CloseNode(ons, ws, node) ==
    LET index == CloseIndex(ons, ws, node)
    IN IF index >= Len(ons)
       THEN [raised |-> TRUE, open_nodes |-> ons, weights |-> ws]
       ELSE [raised |-> FALSE, open_nodes |-> Pop(ons, index), weights |-> Pop(ws, index)]

Reversed(s) == [i \in 1..Len(s) |-> s[Len(s) + 1 - i]]

\* SearchSpace.get_open_nodes, consumed with no change of the frontier in between
GetOpenNodes(sel, ons) == IF sel = ORDER_BY_MAX THEN Reversed(ons) ELSE ons

\* The iterator get_open_nodes() hands to a for loop: reversed(list) starts at the
\* last index and steps down, iter(list) starts at 0 and steps up; both look the
\* index up in the list as it is at the time of the next() call.
IterStart(sel, ons) == IF sel = ORDER_BY_MAX THEN Len(ons) - 1 ELSE 0
IterHasNext(ons, it) == it >= 0 /\ it < Len(ons)
IterAdvance(sel, it) == IF sel = ORDER_BY_MAX THEN it - 1 ELSE it + 1

----------------------------------------------------------------------------
(* CollectionMap and ScopeStore *)

EmptyMap == [k \in {} |-> None]

INIT_REF == 0        \* the mapping store.init in a chain; n >= 1 is maps[n]

MapOf(im, ms, ref) == IF ref = INIT_REF THEN im ELSE ms[ref]

\* a lookup that searches the chain from its far end: init first, the scope's own
\* mapping last
ChainFindDeepest(im, ms, chain, key, i) ==
    LET hits == {j \in i..Len(chain) : key \in DOMAIN MapOf(im, ms, chain[j])}
    IN IF hits = {} THEN 0 ELSE CHOOSE j \in hits : \A k \in hits : k <= j

RECURSIVE ChainFind(_, _, _, _, _)
\* ChainMap.__getitem__: index of the first mapping of the chain holding key, 0 if none
ChainFind(im, ms, chain, key, i) ==
    IF i > Len(chain) THEN 0
    ELSE IF key \in DOMAIN MapOf(im, ms, chain[i]) THEN i
    ELSE ChainFind(im, ms, chain, key, i + 1)

\* get_record(key) does not raise KeyError
HasRecord(im, ms, chain, key) == ChainFind(im, ms, chain, key, 1) # 0

\* get_record(key) where it does not raise
GetRecord(im, ms, chain, key) == MapOf(im, ms, chain[ChainFind(im, ms, chain, key, 1)])[key]

\* put_record / insert_record on a scope: ChainMap writes into its first mapping,
\* the root scope into itself
PutInto(im, ms, chain, key, value) ==
    IF chain[1] = INIT_REF
    THEN [init_map |-> PutRecord(im, key, value), maps |-> ms]
    ELSE [init_map |-> im,
          maps |-> [ms EXCEPT ![chain[1]] = PutRecord(ms[chain[1]], key, value)]]

\* Python truth value of an id handed to "if parent_id:" or "node_id or ..."
Truthy(x) == x # None /\ x # 0

\* a create_scope that registers the parent's chain itself, with no mapping of its own
ChainCreateScopeShared(ms, colls, scope_id, parent_id) ==
    LET new_scope == Len(ms) + 1
    IN IF Truthy(parent_id)
       THEN IF parent_id \in DOMAIN colls
            THEN [raised |-> FALSE,
                  maps |-> Append(ms, EmptyMap),
                  chain |-> colls[parent_id],
                  collections |-> PutRecord(colls, scope_id, colls[parent_id])]
            ELSE [raised |-> TRUE, maps |-> ms, chain |-> <<INIT_REF>>, collections |-> colls]
       ELSE [raised |-> FALSE,
             maps |-> Append(ms, EmptyMap),
             chain |-> <<new_scope, INIT_REF>>,
             collections |-> PutRecord(colls, scope_id, <<new_scope, INIT_REF>>)]

\* ChainScopeStore.create_scope
ChainCreateScope(ms, colls, scope_id, parent_id) ==
    LET new_scope == Len(ms) + 1
    IN IF Truthy(parent_id)
       THEN IF parent_id \in DOMAIN colls
            THEN [raised |-> FALSE,
                  maps |-> Append(ms, EmptyMap),
                  chain |-> <<new_scope>> \o colls[parent_id],
                  collections |-> PutRecord(colls, scope_id, <<new_scope>> \o colls[parent_id])]
            ELSE [raised |-> TRUE, maps |-> ms, chain |-> <<INIT_REF>>, collections |-> colls]
       ELSE [raised |-> FALSE,
             maps |-> Append(ms, EmptyMap),
             chain |-> <<new_scope, INIT_REF>>,
             collections |-> PutRecord(colls, scope_id, <<new_scope, INIT_REF>>)]

\* a NoScopeStore whose create_scope makes scopes as the chained store does
FlatCreateScopeChained(ms, colls, scope_id, parent_id) ==
    ChainCreateScope(ms, colls, scope_id, parent_id)

\* NoScopeStore.create_scope
FlatCreateScope(ms, colls, scope_id, parent_id) ==
    [raised |-> FALSE, maps |-> ms, chain |-> <<INIT_REF>>, collections |-> colls]

CreateScope(kind, ms, colls, scope_id, parent_id) ==
    IF kind = "chain" THEN ChainCreateScope(ms, colls, scope_id, parent_id)
    ELSE FlatCreateScope(ms, colls, scope_id, parent_id)

\* a delete_scope that also drops every scope chained on the deleted one
ChainDeleteScopeCascade(colls, scope_id) ==
    IF scope_id \in DOMAIN colls
    THEN [raised |-> FALSE,
          collections |-> [k \in {j \in DOMAIN colls :
                                    colls[scope_id][1] \notin Range(colls[j])} |->
                              colls[k]]]
    ELSE [raised |-> TRUE, collections |-> colls]

\* ChainScopeStore.delete_scope: collections.pop(scope_id), KeyError for an unknown id
ChainDeleteScope(colls, scope_id) ==
    IF scope_id \in DOMAIN colls
    THEN [raised |-> FALSE,
          collections |-> [k \in DOMAIN colls \ {scope_id} |-> colls[k]]]
    ELSE [raised |-> TRUE, collections |-> colls]

\* NoScopeStore.delete_scope: pass
FlatDeleteScope(colls, scope_id) == [raised |-> FALSE, collections |-> colls]

DeleteScope(kind, colls, scope_id) ==
    IF kind = "chain" THEN ChainDeleteScope(colls, scope_id)
    ELSE FlatDeleteScope(colls, scope_id)

\* get_scope: ChainScopeStore raises ScopeNotFoundError for an unknown id,
\* NoScopeStore returns init
GetScope(kind, colls, scope_id) ==
    IF kind = "chain"
    THEN IF scope_id \in DOMAIN colls
         THEN [raised |-> FALSE, chain |-> colls[scope_id]]
         ELSE [raised |-> TRUE, chain |-> <<INIT_REF>>]
    ELSE [raised |-> FALSE, chain |-> <<INIT_REF>>]

----------------------------------------------------------------------------
(* Graph: nodes and relationships.  hs is a sequence of live Node objects;   *)
(* an operation names its arguments by their position in it, so that two     *)
(* arguments may be one and the same object.                                 *)

\* a create_relationship that records the arc on the source only
CreateRelationshipOneSided(coll, hs, s, t) ==
    LET add_out == hs[t].node_id \notin hs[s].out_nodes_ids
        hs1 == IF add_out
               THEN [hs EXCEPT ![s].out_nodes_ids = @ \cup {hs[t].node_id}]
               ELSE hs
        c1 == IF add_out THEN PutRecord(coll, hs1[s].node_id, ToData(hs1[s])) ELSE coll
    IN [collection |-> c1, handles |-> hs1]

\* Graph.create_relationship(source_node, target_node)
CreateRelationship(coll, hs, s, t) ==
    LET add_out == hs[t].node_id \notin hs[s].out_nodes_ids
        hs1 == IF add_out
               THEN [hs EXCEPT ![s].out_nodes_ids = @ \cup {hs[t].node_id}]
               ELSE hs
        c1 == IF add_out THEN PutRecord(coll, hs1[s].node_id, ToData(hs1[s])) ELSE coll
        add_in == hs1[s].node_id \notin hs1[t].in_nodes_ids
        hs2 == IF add_in
               THEN [hs1 EXCEPT ![t].in_nodes_ids = @ \cup {hs1[s].node_id}]
               ELSE hs1
        c2 == IF add_in THEN PutRecord(c1, hs2[t].node_id, ToData(hs2[t])) ELSE c1
    IN [collection |-> c2, handles |-> hs2]

RECURSIVE ZipRelationships(_, _, _, _, _)
\* the loop "for source_node, target_node in zip(source_nodes, target_nodes)"
ZipRelationships(coll, hs, source_nodes, target_nodes, i) ==
    IF i > Len(source_nodes) \/ i > Len(target_nodes)
    THEN [collection |-> coll, handles |-> hs]
    ELSE LET made == CreateRelationship(coll, hs, source_nodes[i], target_nodes[i])
         IN ZipRelationships(made.collection, made.handles, source_nodes, target_nodes,
                             i + 1)

\* a create_relationships that pairs the sources with the targets position by position
CreateRelationshipsZip(coll, hs, source_nodes, target_nodes) ==
    ZipRelationships(coll, hs, source_nodes, target_nodes, 1)

RECURSIVE CreateRelationshipsFrom(_, _, _, _, _, _)
\* the two nested for loops of create_relationships, from source i and target j on
CreateRelationshipsFrom(coll, hs, source_nodes, target_nodes, i, j) ==
    IF i > Len(source_nodes) THEN [collection |-> coll, handles |-> hs]
    ELSE IF j > Len(target_nodes)
    THEN CreateRelationshipsFrom(coll, hs, source_nodes, target_nodes, i + 1, 1)
    ELSE LET made == CreateRelationship(coll, hs, source_nodes[i], target_nodes[j])
         IN CreateRelationshipsFrom(made.collection, made.handles, source_nodes,
                                    target_nodes, i, j + 1)

\* Graph.create_relationships(source_nodes, target_nodes): each argument is a
\* sequence of positions in hs; a single Node argument is made a one-element tuple
CreateRelationships(coll, hs, source_nodes, target_nodes) ==
    CreateRelationshipsFrom(coll, hs, source_nodes, target_nodes, 1, 1)

\* Graph.create_node(node_id, in_nodes, **kwargs); in_node is the position of the
\* in_nodes argument in hs, 0 for None; the new Node is appended to hs
CreateNode(coll, hs, node_id, in_node, kwargs) ==
    LET id == IF Truthy(node_id) THEN node_id ELSE NextId(coll)
        node == FromData([kwargs EXCEPT !.node_id = id,
                                        !.in_nodes_ids = {},
                                        !.out_nodes_ids = {}])
        c1 == PutRecord(coll, id, ToData(node))
        hs1 == Append(hs, node)
    IN IF in_node # 0
       THEN CreateRelationship(c1, hs1, in_node, Len(hs1))
       ELSE [collection |-> c1, handles |-> hs1]

\* Graph.update_node
UpdateNode(coll, node) == PutRecord(coll, node.node_id, ToData(node))

\* Graph.has_relationship
HasRelationship(source_node, target_node) ==
    source_node.node_id \in target_node.in_nodes_ids

\* Graph.is_successor(child_node, parent_node)
IsSuccessor(child_node, parent_node) == HasRelationship(parent_node, child_node)

\* Graph.is_predecessor(parent_node, child_node)
IsPredecessor(parent_node, child_node) == HasRelationship(parent_node, child_node)

\* Graph.successors(node): the ids looked up, in iteration order of the set
Successors(node) == SetToSeq(node.out_nodes_ids)

\* Graph.predecessors(node)
Predecessors(node) == SetToSeq(node.in_nodes_ids)

----------------------------------------------------------------------------
(* Strategies *)

\* strategies.succesors_generation: ids of the domain successors of the node's reference
SuccesorsGeneration(dmn, node) == Successors(GetNode(dmn, node.reference))

\* an order_evaluation that counts upwards: the last candidate generated gets
\* the greatest weight
OrderEvaluationAscending(n, open_nodes_counter) ==
    [i \in 1..n |-> open_nodes_counter + i]

\* strategies.order_evaluation
OrderEvaluation(n, open_nodes_counter) ==
    [i \in 1..n |-> open_nodes_counter + n + 1 - i]

\* the code of the test fields of the two-branch decision domain, evaluated on
\* what sget('person')['age'] returns
EvalTest(code, age) ==
    CASE code = "age >= 18" -> age >= 18
      [] code = "age < 18" -> age < 18
      [] OTHER -> FALSE

\* a python_test that never runs the test code
PythonTestAlways(dmn, node, age) == TRUE

\* strategies.python_test: a domain node with no test passes
PythonTest(dmn, node, age) ==
    LET test == GetNode(dmn, node.reference).test
    IN IF test = "" THEN TRUE ELSE EvalTest(test, age)

\* strategies.python_execution: the sput calls the action code of the node makes
PythonExecution(dmn, node) ==
    LET action == GetNode(dmn, node.reference).action
    IN CASE action = "sput('result', 'Can vote')" -> <<[key |-> "result", value |-> "Can vote"]>>
         [] action = "sput('result', 'Can not vote')" -> <<[key |-> "result", value |-> "Can not vote"]>>
         [] OTHER -> <<>>

----------------------------------------------------------------------------
(* Frame *)

\* a Frame whose w_builtins is the ro_builtins dict itself, not a copy of it: the
\* write capabilities land in the one namespace both names refer to
NewFrameSharedNamespace(ons) ==
    [node_counter |-> 0,
     selected |-> NoNode,
     context |-> <<INIT_REF>>,
     ro_builtins |-> [logger |-> "logger", sget |-> "sget",
                      sput |-> "sput", sput_all |-> "sput_all",
                      node_counter |-> 0, open_nodes_counter |-> Len(ons)],
     w_builtins |-> [logger |-> "logger", sget |-> "sget",
                     sput |-> "sput", sput_all |-> "sput_all",
                     node_counter |-> 0, open_nodes_counter |-> Len(ons)]]

\* Frame.__init__ with Frame._init_builtins, for a solver whose builtins is None:
\* each namespace maps the names it holds to the capability or counter behind them
NewFrame(ons) ==
    [node_counter |-> 0,
     selected |-> NoNode,
     context |-> <<INIT_REF>>,
     ro_builtins |-> [logger |-> "logger", sget |-> "sget",
                      node_counter |-> 0, open_nodes_counter |-> Len(ons)],
     w_builtins |-> [logger |-> "logger", sget |-> "sget",
                     sput |-> "sput", sput_all |-> "sput_all",
                     node_counter |-> 0, open_nodes_counter |-> Len(ons)]]

\* a w_context that makes a scope at every write
WContextAlways(kind, fr, ms, colls, coll) ==
    LET made == IF fr.selected.context_id # INIT_CONTEXT_ID
                THEN CreateScope(kind, ms, colls, fr.selected.node_id,
                                 fr.selected.context_id)
                ELSE CreateScope(kind, ms, colls, fr.selected.node_id, None)
        fr1 == [fr EXCEPT !.context = made.chain,
                          !.selected.context_id = fr.selected.node_id]
    IN IF made.raised
       THEN [raised |-> TRUE, frame |-> fr, maps |-> ms, collections |-> colls,
             collection |-> coll]
       ELSE [raised |-> FALSE, frame |-> fr1, maps |-> made.maps,
             collections |-> made.collections,
             collection |-> UpdateNode(coll, fr1.selected)]

\* Frame.w_context: the scope written to, made on the first write of the selected node
WContext(kind, fr, ms, colls, coll) ==
    IF fr.selected.context_id # fr.selected.node_id
    THEN LET made == IF fr.selected.context_id # INIT_CONTEXT_ID
                     THEN CreateScope(kind, ms, colls, fr.selected.node_id,
                                      fr.selected.context_id)
                     ELSE CreateScope(kind, ms, colls, fr.selected.node_id, None)
             fr1 == [fr EXCEPT !.context = made.chain,
                               !.selected.context_id = fr.selected.node_id]
         IN IF made.raised
            THEN [raised |-> TRUE, frame |-> fr, maps |-> ms, collections |-> colls,
                  collection |-> coll]
            ELSE [raised |-> FALSE, frame |-> fr1, maps |-> made.maps,
                  collections |-> made.collections,
                  collection |-> UpdateNode(coll, fr1.selected)]
    ELSE [raised |-> FALSE, frame |-> fr, maps |-> ms, collections |-> colls,
          collection |-> coll]

\* a next_frame without its call of _init_builtins: the namespaces keep the
\* counters of the frame's construction
NextFrameNoRefresh(kind, fr, colls, ons) ==
    LET context_id == fr.selected.context_id
        scope == IF context_id # INIT_CONTEXT_ID
                 THEN GetScope(kind, colls, context_id)
                 ELSE [raised |-> FALSE, chain |-> <<INIT_REF>>]
    IN [raised |-> scope.raised,
        frame |-> [fr EXCEPT !.node_counter = @ + 1,
                             !.context = IF scope.raised THEN @ ELSE scope.chain]]

\* Frame.next_frame with Frame._init_builtins
NextFrame(kind, fr, colls, ons) ==
    LET context_id == fr.selected.context_id
        scope == IF context_id # INIT_CONTEXT_ID
                 THEN GetScope(kind, colls, context_id)
                 ELSE [raised |-> FALSE, chain |-> <<INIT_REF>>]
    IN [raised |-> scope.raised,
        frame |-> [fr EXCEPT !.node_counter = @ + 1,
                             !.context = IF scope.raised THEN @ ELSE scope.chain,
                             !.ro_builtins = IF scope.raised THEN @
                                             ELSE [@ EXCEPT
                                                     !.node_counter = fr.node_counter + 1,
                                                     !.open_nodes_counter = Len(ons)],
                             !.w_builtins = IF scope.raised THEN @
                                            ELSE [@ EXCEPT
                                                    !.node_counter = fr.node_counter + 1,
                                                    !.open_nodes_counter = Len(ons)]]]

\* builtins.sget(key) through the frame: does it find the key, and what it returns
SgetFinds(key) == HasRecord(init_map, maps, frame.context, key)
Sget(key) == GetRecord(init_map, maps, frame.context, key)

----------------------------------------------------------------------------
(* Solver *)

RECURSIVE InstantiateFrom(_, _, _, _, _, _)
\* Solver.instantiate: one create_node per domain candidate, from position i on;
\* made is the graph after the create_node of position i, computed once
InstantiateFrom(coll, hs, in_node, context_id, dmn_nodes, i) ==
    IF i > Len(dmn_nodes) THEN [collection |-> coll, handles |-> hs]
    ELSE CHOOSE rest \in
           {InstantiateFrom(made.collection, made.handles, in_node, context_id,
                            dmn_nodes, i + 1) :
              made \in {CreateNode(coll, hs, None, in_node,
                                   [NoNode EXCEPT !.reference = dmn_nodes[i],
                                                  !.context_id = context_id])}} : TRUE

\* an instantiate that never hands the selected node as in_nodes
InstantiateOrphans(coll, parent, dmn_nodes) ==
    LET context_id == IF parent # NoNode THEN parent.context_id ELSE INIT_CONTEXT_ID
        made == InstantiateFrom(coll, <<>>, 0, context_id, dmn_nodes, 1)
    IN [collection |-> made.collection, parent |-> parent, instances |-> made.handles]

\* an instantiate that hands the instances the id of the parent as their
\* context_id, whether the parent has a scope of its own or not
InstantiateIntoParentScope(coll, parent, dmn_nodes) ==
    IF parent # NoNode
    THEN LET made == InstantiateFrom(coll, <<parent>>, 1, parent.node_id, dmn_nodes, 1)
         IN [collection |-> made.collection, parent |-> made.handles[1],
             instances |-> SubSeq(made.handles, 2, Len(made.handles))]
    ELSE LET made == InstantiateFrom(coll, <<>>, 0, INIT_CONTEXT_ID, dmn_nodes, 1)
         IN [collection |-> made.collection, parent |-> NoNode, instances |-> made.handles]

\* Solver.instantiate: hs[1] is the parent when there is one, the instances follow
Instantiate(coll, parent, dmn_nodes) ==
    IF parent # NoNode
    THEN LET made == InstantiateFrom(coll, <<parent>>, 1, parent.context_id, dmn_nodes, 1)
         IN [collection |-> made.collection, parent |-> made.handles[1],
             instances |-> SubSeq(made.handles, 2, Len(made.handles))]
    ELSE LET made == InstantiateFrom(coll, <<>>, 0, INIT_CONTEXT_ID, dmn_nodes, 1)
         IN [collection |-> made.collection, parent |-> NoNode, instances |-> made.handles]

RECURSIVE EvalNodesTruthy(_, _, _, _, _, _, _)
\* an eval_nodes that tests "if weight:": a weight of 0 is discarded as None is
EvalNodesTruthy(sel, coll, ons, ws, instances, evaluations, i) ==
    IF i > Len(instances) \/ i > Len(evaluations)
    THEN [collection |-> coll, open_nodes |-> ons, weights |-> ws]
    ELSE IF Truthy(evaluations[i])
    THEN CHOOSE rest \in
           {EvalNodesTruthy(sel, UpdateNode(coll, node), opened.open_nodes,
                            opened.weights, instances, evaluations, i + 1) :
              <<node, opened>> \in
                 {<<n, OpenNode(sel, ons, ws, n)>> :
                    n \in {[instances[i] EXCEPT !.weight = evaluations[i]]}}} : TRUE
    ELSE EvalNodesTruthy(sel, coll, ons, ws, instances, evaluations, i + 1)

RECURSIVE EvalNodes(_, _, _, _, _, _, _)
\* Solver.eval_nodes: the loop over zip(instances, evaluations), from position i on;
\* node is the instance with its weight set, opened the frontier after open_node
EvalNodes(sel, coll, ons, ws, instances, evaluations, i) ==
    IF i > Len(instances) \/ i > Len(evaluations)
    THEN [collection |-> coll, open_nodes |-> ons, weights |-> ws]
    ELSE IF evaluations[i] # None
    THEN CHOOSE rest \in
           {EvalNodes(sel, UpdateNode(coll, node), opened.open_nodes, opened.weights,
                      instances, evaluations, i + 1) :
              <<node, opened>> \in
                 {<<n, OpenNode(sel, ons, ws, n)>> :
                    n \in {[instances[i] EXCEPT !.weight = evaluations[i]]}}} : TRUE
    ELSE EvalNodes(sel, coll, ons, ws, instances, evaluations, i + 1)

\* the namespace Solver hands to a capability: is_solution(**frame.ro_builtins),
\* evaluator(..., **frame.ro_builtins), test(..., **frame.ro_builtins),
\* execute(..., **frame.w_builtins)
Handed(fr, capability) ==
    IF capability = "execute" THEN fr.w_builtins ELSE fr.ro_builtins

\* what the capabilities of the run may answer
SolutionAnswers ==
    IF solver.is_solution = "has_result"
    THEN {SgetFinds("result")}
    ELSE BOOLEAN

Evaluations(n) ==
    IF solver.evaluator = "order"
    THEN {OrderEvaluation(n, frame.ro_builtins.open_nodes_counter)}
    ELSE [1..n -> RunWeights \cup {None}]

TestAnswers(selection) ==
    IF solver.test = "python"
    THEN {PythonTest(domain, selection, Sget("person").age)}
    ELSE BOOLEAN

NoResult == [raised |-> "", node_counter |-> None]

\* the budget check one step late
BudgetReachedLate(fr, slv) == fr.node_counter = slv.max_nodes + 1

\* Solver.step: "if frame.node_counter == self.max_nodes"
BudgetReached(fr, slv) == fr.node_counter = slv.max_nodes

\* an eval that returns the frame after one call of the predicate, whatever it said
CheckSolutionOnce(answer) ==
    /\ pc = "eval"
    /\ pc' = "returned"
    /\ hist' = [hist EXCEPT !.solved = answer]
    /\ UNCHANGED <<domain, collection, handles, frontierVars, storeVars, frame, solver,
                   current_nodes, iter, pending, result>>

\* Solver.eval, the loop condition: is_solution(**frame.ro_builtins); hist.solved
\* is what the last call of the predicate answered
CheckSolution(answer) ==
    /\ pc = "eval"
    /\ pc' = IF answer THEN "returned" ELSE "step"
    /\ hist' = [hist EXCEPT !.solved = answer]
    /\ UNCHANGED <<domain, collection, handles, frontierVars, storeVars, frame, solver,
                   current_nodes, iter, pending, result>>

\* an eval that checks the budget at the head of its loop, before the predicate
RaiseMaxNodesFirst ==
    /\ pc = "eval"
    /\ BudgetReached(frame, solver)
    /\ pc' = "MaxNodesReachedError"
    /\ result' = [raised |-> "MaxNodesReachedError", node_counter |-> frame.node_counter]
    /\ UNCHANGED <<domain, collection, handles, frontierVars, storeVars, frame, solver,
                   current_nodes, iter, pending, hist>>

\* Solver.step, the budget check
RaiseMaxNodes ==
    /\ pc = "step"
    /\ BudgetReached(frame, solver)
    /\ pc' = "MaxNodesReachedError"
    /\ result' = [raised |-> "MaxNodesReachedError", node_counter |-> frame.node_counter]
    /\ UNCHANGED <<domain, collection, handles, frontierVars, storeVars, frame, solver,
                   current_nodes, iter, pending, hist>>

\* a step that instantiates with the node_builder of the domain graph: the
\* instances are created in the domain collection
StepEvaluateInDomain(evaluations) ==
    /\ pc = "step"
    /\ ~BudgetReached(frame, solver)
    /\ frame.node_counter < MaxSteps
    /\ \E made \in {Instantiate(domain, frame.selected, current_nodes)} :
       \E opened \in {EvalNodes(selector, collection, open_nodes, weights,
                                made.instances, evaluations, 1)} :
          /\ domain' = made.collection
          /\ collection' = opened.collection
          /\ open_nodes' = opened.open_nodes
          /\ weights' = opened.weights
          /\ frame' = [frame EXCEPT !.selected = made.parent]
          /\ iter' = IterStart(selector, opened.open_nodes)
          /\ hist' = [hist EXCEPT
                !.sel_start = GetOpenNodes(selector, opened.open_nodes),
                !.tested = <<>>,
                !.instances = [i \in 1..Len(made.instances) |-> made.instances[i].node_id],
                !.evaluations = evaluations,
                !.inherited = [n \in DOMAIN opened.collection |->
                                  IF n \in DOMAIN collection THEN hist.inherited[n]
                                  ELSE opened.collection[n].context_id]]
    /\ pc' = "select"
    /\ UNCHANGED <<handles, selector, storeVars, solver, current_nodes, pending, result>>

\* Solver.step up to the call of select: instantiate, eval_nodes, and the iterator
\* select makes
StepEvaluate(evaluations) ==
    /\ pc = "step"
    /\ ~BudgetReached(frame, solver)
    /\ frame.node_counter < MaxSteps
    /\ \E made \in {Instantiate(collection, frame.selected, current_nodes)} :
       \E opened \in {EvalNodes(selector, made.collection, open_nodes, weights,
                                made.instances, evaluations, 1)} :
          /\ collection' = opened.collection
          /\ open_nodes' = opened.open_nodes
          /\ weights' = opened.weights
          /\ frame' = [frame EXCEPT !.selected = made.parent]
          /\ iter' = IterStart(selector, opened.open_nodes)
          /\ hist' = [hist EXCEPT
                !.sel_start = GetOpenNodes(selector, opened.open_nodes),
                !.tested = <<>>,
                !.instances = [i \in 1..Len(made.instances) |-> made.instances[i].node_id],
                !.evaluations = evaluations,
                !.inherited = [n \in DOMAIN opened.collection |->
                                  IF n \in DOMAIN collection THEN hist.inherited[n]
                                  ELSE opened.collection[n].context_id]]
    /\ pc' = "select"
    /\ UNCHANGED <<domain, handles, selector, storeVars, solver, current_nodes, pending,
                   result>>

\* Solver.select, one turn of the loop: next() on the iterator, the test, close_node
SelectTest(answer) ==
    /\ pc = "select"
    /\ IterHasNext(open_nodes, iter)
    /\ LET selection == GetNode(collection, open_nodes[iter + 1])
           closed == CloseNode(open_nodes, weights, selection)
       IN /\ answer \in TestAnswers(selection)
          /\ open_nodes' = closed.open_nodes
          /\ weights' = closed.weights
          /\ hist' = [hist EXCEPT
                !.tested = Append(@, [node_id |-> selection.node_id, passed |-> answer]),
                !.all_tested = Append(@, selection.node_id),
                !.executed = IF answer /\ ~closed.raised THEN @ + 1 ELSE @]
          /\ IF closed.raised
             THEN /\ pc' = "IndexError"
                  /\ UNCHANGED <<frame, iter, pending>>
             ELSE IF answer
             THEN /\ pc' = "execute"
                  /\ frame' = [frame EXCEPT !.selected = selection]
                  /\ pending' = IF solver.execute = "python"
                                THEN PythonExecution(domain, selection)
                                ELSE <<>>
                  /\ UNCHANGED iter
             ELSE /\ pc' = "select"
                  /\ iter' = IterAdvance(selector, iter)
                  /\ UNCHANGED <<frame, pending>>
    /\ UNCHANGED <<domain, collection, handles, selector, storeVars, solver,
                   current_nodes, result>>

\* a select without its raise: the loop ends and None is returned as the selection
SelectExhaustedReturnsNone ==
    /\ pc = "select"
    /\ ~IterHasNext(open_nodes, iter)
    /\ pc' = "execute"
    /\ frame' = [frame EXCEPT !.selected = NoNode]
    /\ UNCHANGED <<domain, collection, handles, frontierVars, storeVars, solver,
                   current_nodes, iter, pending, result, hist>>

\* Solver.select, the iterator is exhausted: raise NoMoreNodesError
SelectExhausted ==
    /\ pc = "select"
    /\ ~IterHasNext(open_nodes, iter)
    /\ pc' = "NoMoreNodesError"
    /\ result' = [raised |-> "NoMoreNodesError", node_counter |-> None]
    /\ UNCHANGED <<domain, collection, handles, frontierVars, storeVars, frame, solver,
                   current_nodes, iter, pending, hist>>

\* the sput calls the running action may make next
SputCalls ==
    IF solver.execute = "python"
    THEN IF pending # <<>> THEN {Head(pending)} ELSE {}
    ELSE IF solver.execute = "any" /\ Len(hist.writes) < MaxWrites
    THEN {[key |-> k, value |-> Len(hist.writes) + 1] : k \in Keys}
    ELSE {}

\* the sput_all calls the running action may make next
SputAllCalls ==
    IF solver.execute = "python" THEN {}
    ELSE IF solver.execute = "any" /\ Len(hist.writes) < MaxWrites
    THEN {[key |-> k, value |-> Len(hist.writes) + 1] : k \in Keys}
    ELSE {}

\* builtins.sput(key, value), called by the action of the selected node
Sput(key, value) ==
    /\ pc = "execute"
    /\ LET w == WContext(store_kind, frame, maps, collections, collection)
           put == PutInto(init_map, w.maps, w.frame.context, key, value)
       IN IF w.raised
          THEN /\ pc' = "KeyError"
               /\ UNCHANGED <<collection, storeVars, frame, pending, hist>>
          ELSE /\ frame' = w.frame
               /\ collection' = w.collection
               /\ collections' = w.collections
               /\ init_map' = put.init_map
               /\ maps' = put.maps
               /\ pending' = IF pending # <<>> THEN Tail(pending) ELSE pending
               /\ hist' = [hist EXCEPT
                     !.writes = Append(@, [node_id |-> frame.selected.node_id,
                                           key |-> key, value |-> value,
                                           global |-> FALSE])]
               /\ UNCHANGED <<pc, store_kind>>
    /\ UNCHANGED <<domain, handles, frontierVars, solver, current_nodes, iter, result>>

\* a sput_all that writes through frame.w_context, as sput does
SputAllThroughContext(key, value) ==
    /\ pc = "execute"
    /\ LET w == WContext(store_kind, frame, maps, collections, collection)
           put == PutInto(init_map, w.maps, w.frame.context, key, value)
       IN IF w.raised
          THEN /\ pc' = "KeyError"
               /\ UNCHANGED <<collection, storeVars, frame, pending, hist>>
          ELSE /\ frame' = w.frame
               /\ collection' = w.collection
               /\ collections' = w.collections
               /\ init_map' = put.init_map
               /\ maps' = put.maps
               /\ hist' = [hist EXCEPT
                     !.writes = Append(@, [node_id |-> frame.selected.node_id,
                                           key |-> key, value |-> value,
                                           global |-> TRUE])]
               /\ UNCHANGED <<pc, store_kind, pending>>
    /\ UNCHANGED <<domain, handles, frontierVars, solver, current_nodes, iter, result>>

\* builtins.sput_all(key, value), called by the action of the selected node
SputAll(key, value) ==
    /\ pc = "execute"
    /\ init_map' = PutRecord(init_map, key, value)
    /\ hist' = [hist EXCEPT
          !.writes = Append(@, [node_id |-> frame.selected.node_id, key |-> key,
                                value |-> value, global |-> TRUE])]
    /\ UNCHANGED <<domain, collection, handles, frontierVars, store_kind, maps,
                   collections, frame, solver, pc, current_nodes, iter, pending, result>>

\* a step that never calls close_all, with or without backtracking
StepEndKeepsFrontier ==
    /\ pc = "execute"
    /\ pending = <<>>
    /\ LET nxt == NextFrame(store_kind, frame, collections, open_nodes)
       IN /\ current_nodes' = SuccesorsGeneration(domain, frame.selected)
          /\ frame' = nxt.frame
          /\ pc' = IF nxt.raised THEN "ScopeNotFoundError" ELSE "eval"
    /\ UNCHANGED <<domain, collection, handles, frontierVars, storeVars, solver, iter,
                   pending, result, hist>>

\* Solver.step after the action returned: close_all without backtracking, expand;
\* then Frame.next_frame in Solver.eval
StepEnd ==
    /\ pc = "execute"
    /\ pending = <<>>
    /\ LET ons == IF solver.backtrack THEN open_nodes ELSE <<>>
           nxt == NextFrame(store_kind, frame, collections, ons)
       IN /\ open_nodes' = ons
          /\ weights' = IF solver.backtrack THEN weights ELSE <<>>
          /\ current_nodes' = SuccesorsGeneration(domain, frame.selected)
          /\ frame' = nxt.frame
          /\ pc' = IF nxt.raised THEN "ScopeNotFoundError" ELSE "eval"
    /\ UNCHANGED <<domain, collection, handles, selector, storeVars, solver, iter,
                   pending, result, hist>>

----------------------------------------------------------------------------
(* Runs of Solver.eval *)

DomainNode(node_id, in_nodes_ids, out_nodes_ids, test, action) ==
    ToData([Node(node_id, in_nodes_ids, out_nodes_ids) EXCEPT !.test = test,
                                                              !.action = action])

\* a domain with a branching root, a node that can be expanded for ever and a leaf
SearchDomain ==
    [n \in 0..2 |->
        CASE n = 0 -> DomainNode(0, {}, {1, 2}, "", "")
          [] n = 1 -> DomainNode(1, {0, 1}, {1, 2}, "", "")
          [] n = 2 -> DomainNode(2, {0, 1}, {}, "", "")]

NoHistory ==
    [sel_start |-> <<>>, tested |-> <<>>, all_tested |-> <<>>,
     instances |-> <<>>, evaluations |-> <<>>,
     inherited |-> EmptyMap, writes |-> <<>>, executed |-> 0, solved |-> FALSE]

\* Solver.eval up to its loop: a fresh SearchSpace, the store, the first Frame
RunInit(dmn, args, sel, kind, slv, init) ==
    /\ domain = dmn
    /\ collection = EmptyMap
    /\ handles = <<>>
    /\ open_nodes = <<>>
    /\ weights = <<>>
    /\ selector = sel
    /\ store_kind = kind
    /\ init_map = init
    /\ maps = <<>>
    /\ collections = EmptyMap
    /\ frame = NewFrame(<<>>)
    /\ solver = slv
    /\ pc = "eval"
    /\ current_nodes = args
    /\ iter = 0
    /\ pending = <<>>
    /\ result = NoResult
    /\ hist = NoHistory

\* runs with an arbitrary evaluator, test and solution predicate and an action
\* that writes nothing: selection, budget and frontier
SearchInit ==
    \E args \in {<<>>, <<0>>}, sel \in {ORDER_BY_MAX, ORDER_BY_MIN},
       bt \in BOOLEAN, mx \in {None} \cup (0..MaxSteps) :
        RunInit(SearchDomain, args, sel, "chain",
                [backtrack |-> bt, max_nodes |-> mx, is_solution |-> "any",
                 evaluator |-> "any", test |-> "any", execute |-> "pure"],
                EmptyMap)

SearchNext ==
    \/ \E answer \in SolutionAnswers : CheckSolution(answer)
    \/ RaiseMaxNodes
    \/ \E evaluations \in Evaluations(Len(current_nodes)) : StepEvaluate(evaluations)
    \/ \E answer \in BOOLEAN : SelectTest(answer)
    \/ SelectExhausted
    \/ StepEnd

SpecSearch == SearchInit /\ [][SearchNext]_vars

\* what a run ends with when a capability raised
CapabilityError == [raised |-> "CapabilityError", node_counter |-> None]

\* Solver.step, the evaluator raises in eval_nodes: instantiate has run, nothing
\* is opened, and the exception leaves step and eval
EvaluatorRaises ==
    /\ pc = "step"
    /\ ~BudgetReached(frame, solver)
    /\ frame.node_counter < MaxSteps
    /\ \E made \in {Instantiate(collection, frame.selected, current_nodes)} :
          /\ collection' = made.collection
          /\ frame' = [frame EXCEPT !.selected = made.parent]
    /\ pc' = "CapabilityError"
    /\ result' = CapabilityError
    /\ UNCHANGED <<domain, handles, frontierVars, storeVars, solver, current_nodes,
                   iter, pending, hist>>

\* a select that takes a raising test for a failed one: it closes the candidate
\* and goes on with the next
TestRaisesCaught ==
    /\ pc = "select"
    /\ IterHasNext(open_nodes, iter)
    /\ LET selection == GetNode(collection, open_nodes[iter + 1])
           closed == CloseNode(open_nodes, weights, selection)
       IN /\ open_nodes' = closed.open_nodes
          /\ weights' = closed.weights
          /\ hist' = [hist EXCEPT
                !.tested = Append(@, [node_id |-> selection.node_id, passed |-> FALSE]),
                !.all_tested = Append(@, selection.node_id)]
    /\ iter' = IterAdvance(selector, iter)
    /\ result' = CapabilityError
    /\ UNCHANGED <<domain, collection, handles, selector, storeVars, frame, solver, pc,
                   current_nodes, pending>>

\* Solver.select, the test of the next candidate raises: close_node is not
\* reached, frame.selected is not assigned, the exception leaves select, step and eval
TestRaises ==
    /\ pc = "select"
    /\ IterHasNext(open_nodes, iter)
    /\ pc' = "CapabilityError"
    /\ result' = CapabilityError
    /\ UNCHANGED <<domain, collection, handles, frontierVars, storeVars, frame, solver,
                   current_nodes, iter, pending, hist>>

\* Solver.step, the action of the selected node raises: close_all, expand and
\* next_frame are not reached
ActionRaises ==
    /\ pc = "execute"
    /\ pc' = "CapabilityError"
    /\ result' = CapabilityError
    /\ UNCHANGED <<domain, collection, handles, frontierVars, storeVars, frame, solver,
                   current_nodes, iter, pending, hist>>

\* the runs of SearchInit with capabilities that may raise
RaiseNext ==
    \/ \E answer \in SolutionAnswers : CheckSolution(answer)
    \/ RaiseMaxNodes
    \/ \E evaluations \in Evaluations(Len(current_nodes)) : StepEvaluate(evaluations)
    \/ \E answer \in BOOLEAN : SelectTest(answer)
    \/ SelectExhausted
    \/ StepEnd
    \/ EvaluatorRaises
    \/ TestRaises
    \/ ActionRaises

SpecRaise == SearchInit /\ [][RaiseNext]_vars

\* the same runs with a budget set
BudgetInit ==
    \E args \in {<<>>, <<0>>}, sel \in {ORDER_BY_MAX, ORDER_BY_MIN},
       bt \in BOOLEAN, mx \in 0..MaxBudget :
        RunInit(SearchDomain, args, sel, "chain",
                [backtrack |-> bt, max_nodes |-> mx, is_solution |-> "any",
                 evaluator |-> "any", test |-> "any", execute |-> "pure"],
                EmptyMap)

\* the capabilities return and the run is one thread of control: a run that has a
\* next step takes it
SpecBudget == BudgetInit /\ [][SearchNext]_vars /\ WF_vars(SearchNext)

\* backtracking runs on the chained store with the default evaluator, an arbitrary
\* test and solution predicate and an action that writes: scopes
ScopesInit ==
    RunInit(SearchDomain, <<0>>, ORDER_BY_MAX, "chain",
            [backtrack |-> TRUE, max_nodes |-> None, is_solution |-> "any",
             evaluator |-> "order", test |-> "any", execute |-> "any"],
            EmptyMap)

ScopesNext ==
    \/ \E answer \in SolutionAnswers : CheckSolution(answer)
    \/ \E evaluations \in Evaluations(Len(current_nodes)) : StepEvaluate(evaluations)
    \/ \E answer \in BOOLEAN : SelectTest(answer)
    \/ SelectExhausted
    \/ \E call \in SputCalls : Sput(call.key, call.value)
    \/ \E call \in SputAllCalls : SputAll(call.key, call.value)
    \/ StepEnd

SpecScopes == ScopesInit /\ [][ScopesNext]_vars

\* runs on the flat store, with or without backtracking, with the default
\* evaluator, an arbitrary test and solution predicate and an action that writes
FlatInit ==
    \E bt \in BOOLEAN :
        RunInit(SearchDomain, <<0>>, ORDER_BY_MAX, "flat",
                [backtrack |-> bt, max_nodes |-> None, is_solution |-> "any",
                 evaluator |-> "order", test |-> "any", execute |-> "any"],
                EmptyMap)

FlatNext ==
    \/ \E answer \in SolutionAnswers : CheckSolution(answer)
    \/ \E evaluations \in Evaluations(Len(current_nodes)) : StepEvaluate(evaluations)
    \/ \E answer \in BOOLEAN : SelectTest(answer)
    \/ SelectExhausted
    \/ \E call \in SputCalls : Sput(call.key, call.value)
    \/ \E call \in SputAllCalls : SputAll(call.key, call.value)
    \/ StepEnd

SpecFlat == FlatInit /\ [][FlatNext]_vars

\* the two-branch decision domain of tests/test_solver.py: root, can_vote, can_not_vote
VoteDomain ==
    [n \in 0..2 |->
        CASE n = 0 -> DomainNode(0, {}, {1, 2}, "", "")
          [] n = 1 -> DomainNode(1, {0}, {}, "age >= 18", "sput('result', 'Can vote')")
          [] n = 2 -> DomainNode(2, {0}, {}, "age < 18", "sput('result', 'Can not vote')")]

\* test_simple_solver: NoScopeStore, the person in init, backtrack = False, eval(root)
VoteInit ==
    \E age \in 0..MaxAge :
        RunInit(VoteDomain, <<0>>, ORDER_BY_MAX, "flat",
                [backtrack |-> FALSE, max_nodes |-> None, is_solution |-> "has_result",
                 evaluator |-> "order", test |-> "python", execute |-> "python"],
                PutRecord(EmptyMap, "person", [age |-> age]))

\* in these runs the budget is unset and one of the two tests always passes
VoteNext ==
    \/ \E answer \in SolutionAnswers : CheckSolution(answer)
    \/ \E evaluations \in Evaluations(Len(current_nodes)) : StepEvaluate(evaluations)
    \/ \E answer \in BOOLEAN : SelectTest(answer)
    \/ \E call \in SputCalls : Sput(call.key, call.value)
    \/ StepEnd

\* the run is one thread of control: it goes on while it has a next step
SpecVote == VoteInit /\ [][VoteNext]_vars /\ WF_vars(VoteNext)

----------------------------------------------------------------------------
(* Calls on a bare SearchSpace, Graph or ChainScopeStore *)

NoRun ==
    /\ domain = EmptyMap
    /\ frame = NewFrame(<<>>)
    /\ solver = [backtrack |-> TRUE, max_nodes |-> None, is_solution |-> "any",
                 evaluator |-> "any", test |-> "any", execute |-> "pure"]
    /\ pc = "calls"
    /\ current_nodes = <<>>
    /\ iter = 0
    /\ pending = <<>>

NoStore ==
    /\ store_kind = "chain"
    /\ init_map = EmptyMap
    /\ maps = <<>>
    /\ collections = EmptyMap

\* result of an API call: the operation, whether it raised, and its arguments
\* (a, b; id is the node_id argument of a create_node)
NoCall == [op |-> "", raised |-> FALSE, a |-> None, b |-> None, id |-> None]

\* SearchSpace(selector=sel)
FrontierInit ==
    /\ NoRun
    /\ NoStore
    /\ collection = EmptyMap
    /\ handles = <<>>
    /\ open_nodes = <<>>
    /\ weights = <<>>
    /\ selector \in {ORDER_BY_MAX, ORDER_BY_MIN}
    /\ result = NoCall
    /\ hist = <<>>

\* node = node_builder(weight=weight); open_node(node)
OpenNew(weight, limit) ==
    /\ NextId(collection) < limit
    /\ LET made == CreateNode(collection, <<>>, None, 0, [NoNode EXCEPT !.weight = weight])
           opened == OpenNode(selector, open_nodes, weights, made.handles[1])
       IN /\ collection' = made.collection
          /\ open_nodes' = opened.open_nodes
          /\ weights' = opened.weights
          /\ result' = [NoCall EXCEPT !.op = "open_node", !.a = made.handles[1].node_id]
    /\ UNCHANGED <<handles, selector, storeVars, runVars, hist>>

\* close_node(get_node(node_id))
CloseStored(node_id) ==
    /\ node_id \in DOMAIN collection
    /\ LET closed == CloseNode(open_nodes, weights, GetNode(collection, node_id))
       IN /\ open_nodes' = closed.open_nodes
          /\ weights' = closed.weights
          /\ result' = [NoCall EXCEPT !.op = "close_node", !.a = node_id,
                                      !.raised = closed.raised]
    /\ UNCHANGED <<collection, handles, selector, storeVars, runVars, hist>>

\* SearchSpace.close_all
CloseAll ==
    /\ open_nodes' = <<>>
    /\ weights' = <<>>
    /\ result' = [NoCall EXCEPT !.op = "close_all"]
    /\ UNCHANGED <<collection, handles, selector, storeVars, runVars, hist>>

\* open_node calls only
OrderNext == \E weight \in 1..MaxWeight : OpenNew(weight, MaxOpened)

SpecOrder == FrontierInit /\ [][OrderNext]_vars

FrontierNext ==
    \/ \E weight \in 1..MaxFrontierWeight : OpenNew(weight, MaxFrontier)
    \/ \E node_id \in DOMAIN collection : CloseStored(node_id)
    \/ CloseAll

SpecFrontier == FrontierInit /\ [][FrontierNext]_vars

\* SearchSpace(selector=sel), then a loop "for node in get_open_nodes(): close_node(node)";
\* hist.start is the frontier in selector order when the loop starts, hist.visited
\* the ids of the nodes the loop was handed
DrainInit ==
    /\ NoRun
    /\ NoStore
    /\ collection = EmptyMap
    /\ handles = <<>>
    /\ open_nodes = <<>>
    /\ weights = <<>>
    /\ selector \in {ORDER_BY_MAX, ORDER_BY_MIN}
    /\ result = NoCall
    /\ hist = [start |-> <<>>, visited |-> <<>>]

\* the for statement calls get_open_nodes() and takes its iterator
DrainStart ==
    /\ pc = "calls"
    /\ pc' = "drain"
    /\ iter' = IterStart(selector, open_nodes)
    /\ hist' = [start |-> GetOpenNodes(selector, open_nodes), visited |-> <<>>]
    /\ result' = [NoCall EXCEPT !.op = "get_open_nodes"]
    /\ UNCHANGED <<domain, collection, handles, frontierVars, storeVars, frame, solver,
                   current_nodes, pending>>

\* one turn of the loop: next() on the iterator, get_node, close_node
DrainVisit ==
    /\ pc = "drain"
    /\ IterHasNext(open_nodes, iter)
    /\ LET node == GetNode(collection, open_nodes[iter + 1])
           closed == CloseNode(open_nodes, weights, node)
       IN /\ open_nodes' = closed.open_nodes
          /\ weights' = closed.weights
          /\ hist' = [hist EXCEPT !.visited = Append(@, node.node_id)]
          /\ iter' = IterAdvance(selector, iter)
          /\ result' = [NoCall EXCEPT !.op = "close_node", !.a = node.node_id,
                                      !.raised = closed.raised]
          /\ pc' = IF closed.raised THEN "IndexError" ELSE "drain"
    /\ UNCHANGED <<domain, collection, handles, selector, storeVars, frame, solver,
                   current_nodes, pending>>

\* the iterator is exhausted: the loop ends
DrainEnd ==
    /\ pc = "drain"
    /\ ~IterHasNext(open_nodes, iter)
    /\ pc' = "drained"
    /\ UNCHANGED <<domain, collection, handles, frontierVars, storeVars, frame, solver,
                   current_nodes, iter, pending, result, hist>>

DrainNext ==
    \/ \E weight \in 1..MaxFrontierWeight : pc = "calls" /\ OpenNew(weight, MaxFrontier)
    \/ DrainStart
    \/ DrainVisit
    \/ DrainEnd

SpecDrain == DrainInit /\ [][DrainNext]_vars

\* Graph()
GraphInit ==
    /\ NoRun
    /\ NoStore
    /\ collection = EmptyMap
    /\ handles = <<>>
    /\ open_nodes = <<>>
    /\ weights = <<>>
    /\ selector = ORDER_BY_MAX
    /\ result = NoCall
    /\ hist = <<>>

ExplicitIds == {0, 1, 2}          \* ids a caller hands to create_node

\* create_node(node_id=node_id, in_nodes=handles[in_node]); in_node = 0: no in_nodes
CreateNodeCall(node_id, in_node) ==
    /\ Len(handles) < MaxHandles
    /\ LET made == CreateNode(collection, handles, node_id, in_node, NoNode)
       IN /\ collection' = made.collection
          /\ handles' = made.handles
          /\ result' = [NoCall EXCEPT !.op = "create_node", !.a = in_node,
                                      !.b = Len(made.handles), !.id = node_id]
    /\ UNCHANGED <<frontierVars, storeVars, runVars, hist>>

\* create_relationship(handles[s], handles[t])
CreateRelationshipCall(s, t) ==
    /\ LET made == CreateRelationship(collection, handles, s, t)
       IN /\ collection' = made.collection
          /\ handles' = made.handles
          /\ result' = [NoCall EXCEPT !.op = "create_relationship", !.a = s, !.b = t]
    /\ UNCHANGED <<frontierVars, storeVars, runVars, hist>>

\* the lists of handles a caller passes: the non-empty sets of positions, ascending
HandleLists == {SetToSeq(S) : S \in (SUBSET (1..Len(handles))) \ {{}}}

\* create_relationships([handles[s] for s in source_nodes], [handles[t] for t in target_nodes])
CreateRelationshipsCall(source_nodes, target_nodes) ==
    /\ LET made == CreateRelationships(collection, handles, source_nodes, target_nodes)
       IN /\ collection' = made.collection
          /\ handles' = made.handles
          /\ result' = [NoCall EXCEPT !.op = "create_relationships",
                                      !.a = source_nodes, !.b = target_nodes]
    /\ UNCHANGED <<frontierVars, storeVars, runVars, hist>>

\* get_node(node_id) of a stored id: one more Node object of that node
GetNodeCall(node_id) ==
    /\ Len(handles) < MaxHandles
    /\ node_id \in DOMAIN collection
    /\ handles' = Append(handles, GetNode(collection, node_id))
    /\ result' = [NoCall EXCEPT !.op = "get_node", !.a = node_id]
    /\ UNCHANGED <<collection, frontierVars, storeVars, runVars, hist>>

GraphNext ==
    \/ \E node_id \in ExplicitIds \cup {None}, in_node \in 0..Len(handles) :
          CreateNodeCall(node_id, in_node)
    \/ \E s \in 1..Len(handles), t \in 1..Len(handles) : CreateRelationshipCall(s, t)
    \/ \E node_id \in DOMAIN collection : GetNodeCall(node_id)

SpecGraph == GraphInit /\ [][GraphNext]_vars

\* Graph(), then create_node() and get_node calls and relationships made one by
\* one or list by list between the handles returned
RelateNext ==
    \/ \E in_node \in 0..Len(handles) : CreateNodeCall(None, in_node)
    \/ \E s \in 1..Len(handles), t \in 1..Len(handles) : CreateRelationshipCall(s, t)
    \/ \E source_nodes \in HandleLists, target_nodes \in HandleLists :
          CreateRelationshipsCall(source_nodes, target_nodes)
    \/ \E node_id \in DOMAIN collection : GetNodeCall(node_id)

SpecRelate == GraphInit /\ [][RelateNext]_vars

\* ChainScopeStore(); hist.intended is, per registered scope id, the chain of
\* mappings its create_scope call asked for (the mapping made for it, then those of
\* the scope registered under parent_id); hist.written is what was put into which
\* scope, the scope named by the mapping made for it
StoreInit ==
    /\ NoRun
    /\ collection = EmptyMap
    /\ handles = <<>>
    /\ open_nodes = <<>>
    /\ weights = <<>>
    /\ selector = ORDER_BY_MAX
    /\ store_kind = "chain"
    /\ init_map = EmptyMap
    /\ maps = <<>>
    /\ collections = EmptyMap
    /\ result = NoCall
    /\ hist = [intended |-> EmptyMap, puts |-> 0, written |-> {}]

ScopeIds == 0..2                 \* scope ids a caller uses

\* create_scope(scope_id, parent_id); parent_id = None: create_scope(scope_id)
CreateScopeCall(scope_id, parent_id) ==
    /\ Len(maps) < MaxScopes
    /\ LET made == ChainCreateScope(maps, collections, scope_id, parent_id)
       IN /\ maps' = made.maps
          /\ collections' = made.collections
          /\ result' = [NoCall EXCEPT !.op = "create_scope", !.raised = made.raised,
                                      !.a = scope_id, !.b = parent_id]
          /\ hist' = IF made.raised THEN hist
                     ELSE [hist EXCEPT !.intended =
                              PutRecord(@, scope_id,
                                  IF parent_id # None /\ parent_id \in DOMAIN collections
                                  THEN <<Len(maps) + 1>> \o hist.intended[parent_id]
                                  ELSE <<Len(maps) + 1, INIT_REF>>)]
    /\ UNCHANGED <<collection, handles, frontierVars, store_kind, init_map, runVars>>

\* get_scope(scope_id).put_record(key, value)
PutRecordCall(scope_id, key, value) ==
    /\ hist.puts < MaxPuts
    /\ scope_id \in DOMAIN collections
    /\ LET put == PutInto(init_map, maps, GetScope("chain", collections, scope_id).chain,
                          key, value)
       IN /\ init_map' = put.init_map
          /\ maps' = put.maps
    /\ result' = [NoCall EXCEPT !.op = "put_record", !.a = scope_id]
    /\ hist' = [hist EXCEPT !.puts = @ + 1,
                            !.written = @ \cup {[layer |-> hist.intended[scope_id][1],
                                                 key |-> key, value |-> value]}]
    /\ UNCHANGED <<collection, handles, frontierVars, store_kind, collections, runVars>>

\* store.init.put_record(key, value)
PutInitCall(key, value) ==
    /\ hist.puts < MaxPuts
    /\ init_map' = PutRecord(init_map, key, value)
    /\ result' = [NoCall EXCEPT !.op = "init.put_record"]
    /\ hist' = [hist EXCEPT !.puts = @ + 1]
    /\ UNCHANGED <<collection, handles, frontierVars, store_kind, maps, collections,
                   runVars>>

StoreNext ==
    \/ \E scope_id \in ScopeIds, parent_id \in ScopeIds \cup {None} :
          CreateScopeCall(scope_id, parent_id)
    \/ \E scope_id \in DOMAIN collections, key \in Keys :
          PutRecordCall(scope_id, key, hist.puts + 1)
    \/ \E key \in Keys : PutInitCall(key, hist.puts + 1)

SpecStore == StoreInit /\ [][StoreNext]_vars

\* delete_scope(scope_id); result.b is the mapping that was made for the scope
DeleteScopeCall(scope_id) ==
    /\ LET deleted == ChainDeleteScope(collections, scope_id)
       IN /\ collections' = deleted.collections
          /\ result' = [NoCall EXCEPT !.op = "delete_scope", !.raised = deleted.raised,
                                      !.a = scope_id,
                                      !.b = IF deleted.raised THEN None
                                            ELSE collections[scope_id][1]]
    /\ UNCHANGED <<collection, handles, frontierVars, store_kind, init_map, maps,
                   runVars, hist>>

\* the calls of a bare ChainScopeStore, delete_scope among them
DeleteNext ==
    \/ \E scope_id \in ScopeIds, parent_id \in ScopeIds \cup {None} :
          Len(maps) < MaxDeleteScopes /\ CreateScopeCall(scope_id, parent_id)
    \/ \E scope_id \in DOMAIN collections, key \in Keys :
          hist.puts < MaxDeletePuts /\ PutRecordCall(scope_id, key, hist.puts + 1)
    \/ \E key \in Keys : hist.puts < MaxDeletePuts /\ PutInitCall(key, hist.puts + 1)
    \/ \E scope_id \in ScopeIds : DeleteScopeCall(scope_id)

SpecDelete == StoreInit /\ [][DeleteNext]_vars

----------------------------------------------------------------------------
(* Properties *)

\* the private mapping of the scope registered under scope_id
PrivateMap(scope_id) == maps[collections[scope_id][1]]

\* C1: in a backtracking run on the chained store, the scope made by the first
\* write of a search node is parented at the scope of the context_id the node was
\* instantiated with: every key the nearest writing ancestor wrote is readable
\* through the node's scope, with the ancestor's value unless the node wrote the
\* key itself; with the sentinel the scope is parented at init.  For every node id.
C1_ScopeParentedAtInheritedContext ==
    \A n \in DOMAIN collections :
        LET p == hist.inherited[n]
        IN IF p = INIT_CONTEXT_ID
           THEN collections[n] = <<collections[n][1], INIT_REF>>
           ELSE \A key \in DOMAIN PrivateMap(p) :
                   /\ HasRecord(init_map, maps, collections[n], key)
                   /\ key \notin DOMAIN PrivateMap(n) =>
                        GetRecord(init_map, maps, collections[n], key) = PrivateMap(p)[key]

\* position of node_id in a sequence of ids, 0 if absent
IndexOf(seq, node_id) ==
    IF node_id \in Range(seq) THEN CHOOSE i \in DOMAIN seq : seq[i] = node_id ELSE 0

\* C2: when select returns node s, every node that was open at the start of the
\* selection and comes before s in selector order has been tested, has failed
\* and has been closed; under MAX and under MIN.
C2_SelectReturnsFirstPassing ==
    pc = "execute" =>
        LET s == frame.selected.node_id
        IN /\ s \in Range(hist.sel_start)
           /\ [node_id |-> s, passed |-> TRUE] \in Range(hist.tested)
           /\ \A j \in 1..(IndexOf(hist.sel_start, s) - 1) :
                 /\ [node_id |-> hist.sel_start[j], passed |-> FALSE] \in Range(hist.tested)
                 /\ hist.sel_start[j] \notin Range(open_nodes)

\* C3: with max_nodes = N, never more than N steps are performed (node_counter
\* and the number of executed actions stay <= N), and a step entered with
\* node_counter = N raises MaxNodesReachedError carrying node_counter = N.
C3_BudgetTermination ==
    [][solver.max_nodes # None =>
          /\ frame'.node_counter <= solver.max_nodes
          /\ hist'.executed <= solver.max_nodes
          /\ (pc = "step" /\ frame.node_counter = solver.max_nodes) =>
                /\ pc' = "MaxNodesReachedError"
                /\ result'.raised = "MaxNodesReachedError"
                /\ result'.node_counter = solver.max_nodes]_vars

\* C3 witness: a run of N = 2 steps, each executing an action, ended by the budget
C3_Witness ==
    /\ solver.max_nodes = 2
    /\ pc = "MaxNodesReachedError"
    /\ result.node_counter = 2
    /\ hist.executed = 2

\* weights of the stored nodes in the order the ids were made
StoredWeights == [i \in 1..NextId(collection) |-> collection[i - 1].weight]

\* weights of the nodes get_open_nodes produces, in the order it produces them
ProducedWeights ==
    LET out == GetOpenNodes(selector, open_nodes)
    IN [i \in 1..Len(out) |-> GetNode(collection, out[i]).weight]

\* C4: after any sequence of open_node calls get_open_nodes produces every open
\* node exactly once, weights non-increasing under MAX and non-decreasing under
\* MIN; weights 3,1,4,1,5 come out as 5,4,3,1,1 under MAX and 1,1,3,4,5 under MIN.
C4_FrontierOrdering ==
    LET out == GetOpenNodes(selector, open_nodes)
    IN /\ Len(out) = NextId(collection)
       /\ Range(out) = DOMAIN collection
       /\ \A i \in 1..(Len(out) - 1) :
             IF selector = ORDER_BY_MAX
             THEN ProducedWeights[i] >= ProducedWeights[i + 1]
             ELSE ProducedWeights[i] <= ProducedWeights[i + 1]
       /\ StoredWeights = <<3, 1, 4, 1, 5>> =>
             ProducedWeights = IF selector = ORDER_BY_MAX THEN <<5, 4, 3, 1, 1>>
                               ELSE <<1, 1, 3, 4, 5>>

\* C4 witness: the weights 3,1,4,1,5 opened under MAX
C4_Witness ==
    /\ selector = ORDER_BY_MAX
    /\ StoredWeights = <<3, 1, 4, 1, 5>>
    /\ ProducedWeights = <<5, 4, 3, 1, 1>>

\* the frontier as (id, weight) entries
Entries(ons, ws) == [i \in 1..Len(ons) |-> <<ons[i], ws[i]>>]

EntriesWithout(ons, ws, node_id) ==
    LET Other(e) == e[1] # node_id
    IN SelectSeq(Entries(ons, ws), Other)

\* C5: close_node on an open node removes the entry of that node and nothing
\* else: the size drops by one, the node is no longer produced, every other
\* entry stays, in the same relative order; under both selectors.
C5_CloseRemovesExactlyOne ==
    [][(result'.op = "close_node" /\ result'.a \in Range(open_nodes)) =>
          /\ ~result'.raised
          /\ Len(open_nodes') = Len(open_nodes) - 1
          /\ Len(weights') = Len(weights) - 1
          /\ result'.a \notin Range(GetOpenNodes(selector', open_nodes'))
          /\ Entries(open_nodes', weights') =
                EntriesWithout(open_nodes, weights, result'.a)]_vars

\* C5 witness: a node was closed while another node of the same weight stays open
C5_Witness ==
    /\ result.op = "close_node"
    /\ ~result.raised
    /\ \E i \in DOMAIN weights : weights[i] = collection[result.a].weight

\* C6: right after create_relationship(A, B), or create_node(in_nodes=A) making
\* B, A.id is in B's in-ids, B.id is in A's out-ids, is_successor(B, A) and
\* is_predecessor(A, B) hold, successors(A) yields B and predecessors(B) yields A.
C6_RelationshipSymmetry ==
    ((result.op = "create_relationship") \/ (result.op = "create_node" /\ result.a # 0)) =>
        LET A == handles[result.a]
            B == handles[result.b]
        IN /\ A.node_id \in B.in_nodes_ids
           /\ B.node_id \in A.out_nodes_ids
           /\ IsSuccessor(B, A)
           /\ IsPredecessor(A, B)
           /\ Range(Successors(A)) \subseteq DOMAIN collection
           /\ \E i \in DOMAIN Successors(A) :
                 GetNode(collection, Successors(A)[i]).node_id = B.node_id
           /\ Range(Predecessors(B)) \subseteq DOMAIN collection
           /\ \E i \in DOMAIN Predecessors(B) :
                 GetNode(collection, Predecessors(B)[i]).node_id = A.node_id

\* C6 witness: a relationship made between two nodes of different ids
C6_Witness ==
    /\ result.op = "create_relationship"
    /\ handles[result.a].node_id # handles[result.b].node_id
    /\ handles[result.b].node_id \in handles[result.a].out_nodes_ids

\* C7 (reads): a read through a chained scope returns the value of the nearest
\* layer holding the key among its own and its ancestors', down to init, and
\* fails only when none of them holds the key.
C7_ReadFallsThroughAncestors ==
    \A scope_id \in DOMAIN collections, key \in Keys :
        LET found == ChainFind(init_map, maps, hist.intended[scope_id], key, 1)
        IN /\ HasRecord(init_map, maps, collections[scope_id], key) <=> found # 0
           /\ found # 0 =>
                GetRecord(init_map, maps, collections[scope_id], key) =
                    MapOf(init_map, maps, hist.intended[scope_id][found])[key]

\* C7 (writes): a write into a chained scope leaves what init and every ancestor
\* scope return for every key as it was.
C7_WriteIsolation ==
    [][result'.op = "put_record" =>
          /\ init_map' = init_map
          /\ \A other \in DOMAIN collections, key \in Keys :
                hist.intended[other][1] \in Range(hist.intended[result'.a])
                /\ other # result'.a =>
                   /\ HasRecord(init_map', maps', collections'[other], key)
                         = HasRecord(init_map, maps, collections[other], key)
                   /\ HasRecord(init_map, maps, collections[other], key) =>
                         GetRecord(init_map', maps', collections'[other], key)
                            = GetRecord(init_map, maps, collections[other], key)]_vars

\* C8: what is put into a scope is never read through a scope that is neither
\* that scope nor one of its descendants (a sibling, an unrelated scope, its
\* parent), nor from init.  Every put has a value of its own, so reading the
\* value is observing the put.
C8_SiblingIsolation ==
    \A w \in hist.written :
        /\ w.key \in DOMAIN init_map => init_map[w.key] # w.value
        /\ \A other \in DOMAIN collections :
              w.layer \notin Range(hist.intended[other]) =>
                 ~(/\ HasRecord(init_map, maps, collections[other], w.key)
                   /\ GetRecord(init_map, maps, collections[other], w.key) = w.value)

\* C8 witness: two scopes, neither an ancestor of the other; a key was put into
\* one, and the other reads the same key from a common ancestor
C8_Witness ==
    \E w \in hist.written, other \in DOMAIN collections :
        /\ w.layer \notin Range(hist.intended[other])
        /\ \E one \in DOMAIN collections :
              /\ hist.intended[one][1] = w.layer
              /\ hist.intended[other][1] \notin Range(hist.intended[one])
        /\ HasRecord(init_map, maps, collections[other], w.key)
        /\ GetRecord(init_map, maps, collections[other], w.key) # w.value

\* the step is a sput call
SputStep ==
    /\ Len(hist'.writes) = Len(hist.writes) + 1
    /\ ~hist'.writes[Len(hist'.writes)].global

\* C9: a search node keeps the context_id it was instantiated with until its
\* first write; the first write makes exactly one scope, registered under the
\* node's id, sets the node's context_id to its id and persists the node; a
\* further write of the node makes no scope and lands in the same scope.
C9_LazyMaterialization ==
    [][/\ \A n \in DOMAIN collection :
             collection'[n].context_id # collection[n].context_id =>
                /\ SputStep
                /\ n = frame.selected.node_id
                /\ n \notin DOMAIN collections
                /\ collection[n].context_id = hist.inherited[n]
       /\ SputStep =>
             LET n == frame.selected.node_id
                 w == hist'.writes[Len(hist'.writes)]
             IN /\ IF n \notin DOMAIN collections
                   THEN /\ frame.selected.context_id = hist.inherited[n]
                        /\ Len(maps') = Len(maps) + 1
                        /\ DOMAIN collections' = DOMAIN collections \cup {n}
                        /\ \A m \in DOMAIN collections : collections'[m] = collections[m]
                   ELSE /\ Len(maps') = Len(maps)
                        /\ collections' = collections
                /\ frame'.selected.context_id = n
                /\ collection'[n].context_id = n
                /\ frame'.context = collections'[n]
                /\ w.key \in DOMAIN maps'[collections'[n][1]]
                /\ maps'[collections'[n][1]][w.key] = w.value]_vars

\* C9 witness: a node has written twice in one step
C9_Witness ==
    /\ pc = "execute"
    /\ Len(hist.writes) >= 2
    /\ LET a == hist.writes[Len(hist.writes) - 1]
           b == hist.writes[Len(hist.writes)]
       IN /\ ~a.global /\ ~b.global
          /\ a.node_id = frame.selected.node_id
          /\ b.node_id = frame.selected.node_id
          /\ frame.selected.context_id = frame.selected.node_id
          /\ hist.inherited[frame.selected.node_id] # INIT_CONTEXT_ID

\* C10: the run on the two-branch decision domain returns, and init then holds
\* result = 'Can vote' exactly when age >= 18 ('Can not vote' for age 15).
C10_VoteResult ==
    <>[](/\ pc = "returned"
         /\ "result" \in DOMAIN init_map
         /\ init_map["result"] = IF init_map["person"].age >= 18 THEN "Can vote"
                                 ELSE "Can not vote")

\* C10 witness: the run for age 15 has returned with 'Can not vote'
C10_Witness ==
    /\ pc = "returned"
    /\ init_map["person"].age = 15
    /\ init_map["result"] = "Can not vote"

\* C11: when the solution predicate is false and the frontier is empty after the
\* evaluation phase of a step (no candidate, or every candidate discarded, and
\* nothing left open), the step raises NoMoreNodesError: no test is made, no
\* action is executed, nothing is written and node_counter does not advance.
C11_EmptyFrontierRaises ==
    [][(pc = "select" /\ hist.tested = <<>> /\ open_nodes = <<>>) =>
          /\ pc' = "NoMoreNodesError"
          /\ result'.raised = "NoMoreNodesError"
          /\ hist'.tested = <<>>
          /\ hist'.executed = hist.executed
          /\ hist'.writes = hist.writes
          /\ frame'.node_counter = frame.node_counter]_vars

\* C11 witness: the second step discarded both its candidates, nothing was open,
\* and the run ended with NoMoreNodesError after one executed action
C11_Witness ==
    /\ pc = "NoMoreNodesError"
    /\ result.raised = "NoMoreNodesError"
    /\ Len(hist.instances) = 2
    /\ hist.sel_start = <<>>
    /\ hist.tested = <<>>
    /\ frame.node_counter = 1
    /\ hist.executed = 1

\* C12: select raises NoMoreNodesError only when the frontier is exhausted: at the
\* raise every node that was open at the start of the selection has been tested
\* and has failed, and the frontier is empty; under MAX and under MIN.
C12_RaisesOnlyWhenExhausted ==
    pc = "NoMoreNodesError" =>
        /\ open_nodes = <<>>
        /\ \A j \in DOMAIN hist.sel_start :
              [node_id |-> hist.sel_start[j], passed |-> FALSE] \in Range(hist.tested)

\* C13: a loop over get_open_nodes() that closes each node it is handed visits
\* every node that was open at its start exactly once, in selector order, and
\* leaves the frontier empty; for any frontier and both selectors.
C13_DrainVisitsAll ==
    pc = "drained" =>
        /\ hist.visited = hist.start
        /\ Len(open_nodes) = 0

\* C14: open_node places an entry of a weight already in the frontier after the
\* existing entries of that weight under MAX and before them under MIN (ids are
\* given in the order the nodes are opened), and under MAX get_open_nodes
\* produces, of two open nodes of equal weight, the one opened last first.
C14_TiePlacement ==
    /\ \A i \in DOMAIN open_nodes, j \in DOMAIN open_nodes :
          (i < j /\ weights[i] = weights[j]) =>
              IF selector = ORDER_BY_MAX
              THEN open_nodes[i] < open_nodes[j]
              ELSE open_nodes[i] > open_nodes[j]
    /\ selector = ORDER_BY_MAX =>
          LET out == GetOpenNodes(selector, open_nodes)
          IN \A i \in DOMAIN out, j \in DOMAIN out :
                (i < j /\ collection[out[i]].weight = collection[out[j]].weight) =>
                    out[i] > out[j]

\* C14 witness: under MAX two nodes were opened with the same, highest weight and
\* the later one is produced first
C14_Witness ==
    /\ selector = ORDER_BY_MAX
    /\ Len(open_nodes) >= 3
    /\ weights[Len(weights)] = weights[Len(weights) - 1]
    /\ weights[Len(weights)] > weights[1]
    /\ GetOpenNodes(selector, open_nodes)[1] > GetOpenNodes(selector, open_nodes)[2]

\* C15 as claimed: of two open nodes of equal weight get_open_nodes produces the
\* one opened earliest first (first in, first out), under both selectors.
C15_TiesFirstInFirstOut ==
    LET out == GetOpenNodes(selector, open_nodes)
    IN \A i \in DOMAIN out, j \in DOMAIN out :
          (i < j /\ collection[out[i]].weight = collection[out[j]].weight) =>
              out[i] < out[j]

\* C15 as amended: of two open nodes of equal weight get_open_nodes produces the
\* one opened latest first (last in, first out), under both selectors.
C15_TiesLastInFirstOut ==
    LET out == GetOpenNodes(selector, open_nodes)
    IN /\ Len(out) = Len(open_nodes)
       /\ \A i \in DOMAIN out, j \in DOMAIN out :
             (i < j /\ collection[out[i]].weight = collection[out[j]].weight) =>
                 out[i] > out[j]

\* C15 witness: under MIN three nodes of one weight are open, with a heavier one,
\* and they are produced latest first
C15_Witness ==
    /\ selector = ORDER_BY_MIN
    /\ Len(open_nodes) = 4
    /\ weights[1] = weights[3]
    /\ weights[4] > weights[3]
    /\ open_nodes[1] > open_nodes[2]
    /\ open_nodes[2] > open_nodes[3]

\* C16: create_scope(id, parent_id) with parent_id the id of a registered scope,
\* 0 included, chains the new scope to that parent: a key held in the parent's
\* private layer and not in the new scope's own is read through the new scope
\* with the parent's value, also when it was put after the new scope was made;
\* create_scope(id) chains the new scope directly to init.
C16_CreateScopeChainsToParent ==
    \A scope_id \in DOMAIN collections :
        LET own == hist.intended[scope_id][1]
            parent == hist.intended[scope_id][2]
        IN /\ collections[scope_id][1] = own
           /\ IF parent = INIT_REF
              THEN collections[scope_id] = <<own, INIT_REF>>
              ELSE \A key \in DOMAIN maps[parent] \ DOMAIN maps[own] :
                      /\ HasRecord(init_map, maps, collections[scope_id], key)
                      /\ GetRecord(init_map, maps, collections[scope_id], key)
                            = maps[parent][key]

\* C17: on the flat store create_scope and get_scope return the root scope for
\* any arguments and delete_scope changes nothing; in a run on it frame.context
\* is the root scope at every step, no scope is ever registered, and the last
\* value written for a key, by sput or by sput_all, is what init holds and what
\* sget returns from then on.
C17_FlatStoreSingleScope ==
    /\ \A scope_id \in ScopeIds \cup {None}, parent_id \in ScopeIds \cup {None} :
          /\ CreateScope(store_kind, maps, collections, scope_id, parent_id)
                = [raised |-> FALSE, maps |-> maps, chain |-> <<INIT_REF>>,
                   collections |-> collections]
          /\ GetScope(store_kind, collections, scope_id)
                = [raised |-> FALSE, chain |-> <<INIT_REF>>]
          /\ DeleteScope(store_kind, collections, scope_id)
                = [raised |-> FALSE, collections |-> collections]
    /\ frame.context = <<INIT_REF>>
    /\ maps = <<>>
    /\ collections = EmptyMap
    /\ pc \notin {"KeyError", "ScopeNotFoundError"}
    /\ \A i \in DOMAIN hist.writes :
          (\A j \in DOMAIN hist.writes : j > i => hist.writes[j].key # hist.writes[i].key) =>
              /\ hist.writes[i].key \in DOMAIN init_map
              /\ init_map[hist.writes[i].key] = hist.writes[i].value
              /\ SgetFinds(hist.writes[i].key)
              /\ Sget(hist.writes[i].key) = hist.writes[i].value

\* C17 witness: a later step of a run on the flat store reads what a sput of an
\* earlier step wrote, after its node had made its write context
C17_Witness ==
    /\ store_kind = "flat"
    /\ pc = "execute"
    /\ frame.node_counter = 2
    /\ \E i \in DOMAIN hist.writes :
          /\ ~hist.writes[i].global
          /\ hist.writes[i].node_id # frame.selected.node_id
          /\ collection[hist.writes[i].node_id].context_id = hist.writes[i].node_id
          /\ Sget(hist.writes[i].key) = hist.writes[i].value

\* the step is a sput_all call
SputAllStep ==
    /\ Len(hist'.writes) = Len(hist.writes) + 1
    /\ hist'.writes[Len(hist'.writes)].global

\* C18: sput_all(key, value) stores the value in init whatever the scope of the
\* selected node is; it makes no scope, changes no private layer and no other
\* key of init, and leaves the selected node, its context_id and frame.context
\* as they were; after it the key reads as value from init, through the frame
\* and through every registered scope, unless a private layer of the chain read
\* through holds the key.
C18_WriteGlobal ==
    [][SputAllStep =>
          LET w == hist'.writes[Len(hist'.writes)]
              Shadowed(chain) == \E i \in DOMAIN chain :
                                    chain[i] # INIT_REF /\ w.key \in DOMAIN maps'[chain[i]]
          IN /\ w.key \in DOMAIN init_map'
             /\ init_map'[w.key] = w.value
             /\ \A k \in DOMAIN init_map' \ {w.key} :
                   k \in DOMAIN init_map /\ init_map'[k] = init_map[k]
             /\ maps' = maps
             /\ collections' = collections
             /\ collection' = collection
             /\ frame' = frame
             /\ \A scope_id \in DOMAIN collections :
                   ~Shadowed(collections[scope_id]) =>
                      /\ HasRecord(init_map', maps', collections[scope_id], w.key)
                      /\ GetRecord(init_map', maps', collections[scope_id], w.key) = w.value
             /\ ~Shadowed(frame.context) =>
                   /\ HasRecord(init_map', maps', frame'.context, w.key)
                   /\ GetRecord(init_map', maps', frame'.context, w.key) = w.value]_vars

\* C18 witness: the selected node, whose context is a scope of its own holding
\* another key, has just called sput_all, and sget returns the value through
\* that scope
C18_Witness ==
    /\ pc = "execute"
    /\ hist.writes # <<>>
    /\ LET w == hist.writes[Len(hist.writes)]
       IN /\ w.global
          /\ frame.selected.context_id = frame.selected.node_id
          /\ frame.context = collections[frame.selected.node_id]
          /\ maps[frame.context[1]] # EmptyMap
          /\ w.key \notin DOMAIN maps[frame.context[1]]
          /\ Sget(w.key) = w.value

\* C19: after the action of the selected node calls sput(key, value), sget(key)
\* through the frame returns value in the same step, whatever the context_id of
\* the node was before the write (the sentinel, the id of an ancestor's scope,
\* or its own id) and whatever the key holds in ancestor scopes or in init.
C19_ReadYourWrites ==
    [][SputStep =>
          LET w == hist'.writes[Len(hist'.writes)]
          IN /\ pc' = "execute"
             /\ frame'.selected.node_id = frame.selected.node_id
             /\ HasRecord(init_map', maps', frame'.context, w.key)
             /\ GetRecord(init_map', maps', frame'.context, w.key) = w.value]_vars

\* C19 witness: a node that inherited an ancestor's scope has written a key that
\* init and the ancestor's scope hold with other values, and reads its own value
C19_Witness ==
    /\ pc = "execute"
    /\ hist.writes # <<>>
    /\ LET w == hist.writes[Len(hist.writes)]
           n == frame.selected.node_id
       IN /\ ~w.global
          /\ w.node_id = n
          /\ hist.inherited[n] \notin {INIT_CONTEXT_ID, n}
          /\ w.key \in DOMAIN init_map
          /\ init_map[w.key] # w.value
          /\ w.key \in DOMAIN PrivateMap(hist.inherited[n])
          /\ PrivateMap(hist.inherited[n])[w.key] # w.value
          /\ Sget(w.key) = w.value

\* C20: at every step of a run the namespace handed to the solution predicate,
\* to the evaluator and to the test holds neither sput nor sput_all; the
\* namespace handed to the action holds both, and both hold sget and the two
\* counters of the step.
C20_ReadOnlyNamespace ==
    /\ \A capability \in {"is_solution", "evaluator", "test"} :
          /\ DOMAIN Handed(frame, capability) \cap {"sput", "sput_all"} = {}
          /\ {"sget", "node_counter", "open_nodes_counter"}
                \subseteq DOMAIN Handed(frame, capability)
    /\ {"sput", "sput_all", "sget", "node_counter", "open_nodes_counter"}
          \subseteq DOMAIN Handed(frame, "execute")
    /\ Handed(frame, "execute").node_counter = Handed(frame, "test").node_counter

\* C20 witness: an action is running in the third step of a run, two next_frame
\* calls after the namespaces were made, and has written
C20_Witness ==
    /\ pc = "execute"
    /\ frame.node_counter = 2
    /\ Handed(frame, "test").node_counter = 2
    /\ hist.writes # <<>>
    /\ hist.writes[Len(hist.writes)].node_id = frame.selected.node_id

\* C21: on a Graph with the in-memory collection, the id a create_node call
\* without an id takes from next_id() is not the id of a node already stored:
\* the call does not overwrite an existing record.
C21_NextIdIsFresh ==
    [][(result'.op = "create_node" /\ result'.id = None) =>
          /\ handles'[result'.b].node_id \notin DOMAIN collection
          /\ Cardinality(DOMAIN collection') = Cardinality(DOMAIN collection) + 1]_vars

\* C22: a run with the default generation, test and execution strategies leaves
\* the domain graph as it was given: no step adds, removes or changes a domain
\* record; the nodes a step creates, one per candidate, are records of the search
\* space, and no other step adds a record to it.
C22_DomainReadOnly ==
    [][/\ domain = VoteDomain
       /\ domain' = domain
       /\ IF pc = "step" /\ pc' = "select"
          THEN /\ DOMAIN collection' = DOMAIN collection \cup Range(hist'.instances)
               /\ Range(hist'.instances) \cap DOMAIN collection = {}
               /\ Len(hist'.instances) = Len(current_nodes)
               /\ Cardinality(Range(hist'.instances)) = Len(current_nodes)
          ELSE DOMAIN collection' = DOMAIN collection]_vars

\* C22 witness: the run has returned after two steps that created three search
\* nodes and executed an action that wrote the result
C22_Witness ==
    /\ pc = "returned"
    /\ frame.node_counter = 2
    /\ Cardinality(DOMAIN collection) = 3
    /\ "result" \in DOMAIN init_map
    /\ domain = VoteDomain

\* the ways a run of eval ends
Outcomes == {"returned", "NoMoreNodesError", "MaxNodesReachedError"}

\* C23: with max_nodes = N and capabilities that return, a run of eval ends, after
\* at most N steps, by returning, by NoMoreNodesError or by MaxNodesReachedError
\* and in no other way; when it returns, the last answer of the solution
\* predicate, given on the frame returned, was true.
C23_ThreeOutcomes ==
    /\ (solver.max_nodes # None) ~> (pc \in Outcomes)
    /\ [](solver.max_nodes # None =>
            /\ pc \in Outcomes \cup {"eval", "step", "select", "execute"}
            /\ frame.node_counter <= solver.max_nodes
            /\ hist.executed <= solver.max_nodes
            /\ pc = "returned" => hist.solved
            /\ pc \in {"NoMoreNodesError", "MaxNodesReachedError"} =>
                  result.raised = pc /\ ~hist.solved)

\* C23 witness: with max_nodes = 2 the run returned after two steps, on a frame
\* the predicate accepted
C23_Witness ==
    /\ solver.max_nodes = 2
    /\ pc = "returned"
    /\ hist.solved
    /\ frame.node_counter = 2
    /\ hist.executed = 2

RECURSIVE AncestorsOrSelf(_, _)
\* a search node and its search-graph ancestors, by the persisted in-ids
AncestorsOrSelf(coll, n) ==
    {n} \cup UNION {AncestorsOrSelf(coll, p) : p \in coll[n].in_nodes_ids}

\* the search node whose first write made the mapping ref
ScopeOwner(ref) == CHOOSE m \in DOMAIN collections : collections[m][1] = ref

\* every key sget finds through frame.context is held by init or by the scope of
\* node n or of one of its ancestors
ReadsOwnBranch(n) ==
    \A key \in Keys :
        LET found == ChainFind(init_map, maps, frame.context, key, 1)
        IN (found # 0 /\ frame.context[found] # INIT_REF) =>
              ScopeOwner(frame.context[found]) \in AncestorsOrSelf(collection, n)

\* C24: in a backtracking run on the chained store, what the test of a candidate
\* and the action of the selected node (before and after its first write) read
\* through sget comes from init, from the node's own scope or from the scope of
\* one of the node's search-graph ancestors, never from the scope of a node of
\* another branch.
C24_ReadsStayOnBranch ==
    /\ (pc = "select" /\ IterHasNext(open_nodes, iter)) =>
          ReadsOwnBranch(open_nodes[iter + 1])
    /\ pc = "execute" => ReadsOwnBranch(frame.selected.node_id)

\* C25: in select every tested candidate leaves the frontier with its test, before
\* the next test and before the selection returns, whether it passed or failed;
\* no search node is tested twice in a run, the node selected is the node whose
\* test just passed (so none is selected twice), and the selected node is not in
\* the frontier while its action runs.
C25_TestedNodesLeaveFrontier ==
    [][/\ hist'.all_tested # hist.all_tested =>
             LET n == hist'.all_tested[Len(hist'.all_tested)]
             IN /\ hist'.all_tested = Append(hist.all_tested, n)
                /\ n \in Range(open_nodes)
                /\ n \notin Range(open_nodes')
                /\ Len(open_nodes') = Len(open_nodes) - 1
                /\ Len(weights') = Len(open_nodes')
                /\ n \notin Range(hist.all_tested)
                /\ pc' \in {"select", "execute"}
                /\ pc' = "execute" <=> hist'.tested[Len(hist'.tested)].passed
                /\ pc' = "execute" => frame'.selected.node_id = n
       /\ (pc # "execute" /\ pc' = "execute") => hist'.all_tested # hist.all_tested
       /\ pc' = "execute" => frame'.selected.node_id \notin Range(open_nodes')]_vars

\* C25 witness: in a backtracking run a candidate failed its test, the next one
\* passed and its action runs while an older candidate is still open
C25_Witness ==
    /\ pc = "execute"
    /\ solver.backtrack
    /\ Len(hist.tested) = 2
    /\ ~hist.tested[1].passed
    /\ hist.tested[2].passed
    /\ open_nodes # <<>>
    /\ frame.selected.node_id \notin Range(open_nodes)

\* C26: with backtracking disabled the frontier is empty when a step has ended;
\* the candidates a step tests are among those it instantiated, so a candidate
\* left untested is never tested or selected later; and every selected node
\* after the first is a search-graph successor of the node selected before it.
C26_NoBacktrackFrontier ==
    [][~solver.backtrack =>
          /\ pc' \in {"eval", "step", "returned", "MaxNodesReachedError"} =>
                open_nodes' = <<>> /\ weights' = <<>>
          /\ hist'.all_tested # hist.all_tested =>
                hist'.all_tested[Len(hist'.all_tested)] \in Range(hist.instances)
          /\ (pc = "select" /\ pc' = "execute") =>
                /\ frame'.selected.node_id \in Range(hist.instances)
                /\ frame.selected # NoNode =>
                      /\ frame.selected.node_id \in
                            collection[frame'.selected.node_id].in_nodes_ids
                      /\ frame'.selected.node_id \in
                            collection[frame.selected.node_id].out_nodes_ids
                      /\ IsSuccessor(frame'.selected, frame.selected)]_vars

\* C26 witness: without backtracking the second step opened two candidates,
\* tested and selected one and ended with an empty frontier, and the third step
\* selected a successor of that node
C26_Witness ==
    /\ ~solver.backtrack
    /\ pc = "execute"
    /\ frame.node_counter = 2
    /\ Len(hist.all_tested) = 3
    /\ hist.all_tested[2] = 1
    /\ 2 \notin Range(hist.all_tested)
    /\ Cardinality(DOMAIN collection) = 5
    /\ \A n \in DOMAIN collection : collection[n].weight # None
    /\ Len(open_nodes) = 1
    /\ frame.selected.in_nodes_ids = {1}

\* C27: the instantiate phase of a step makes exactly one new search node per
\* domain candidate: its id is fresh, its reference is the candidate's id, its
\* only predecessor is the previously selected search node (none in the first
\* step), which gains the new node as successor, and its context_id is the
\* selected node's context_id at that moment (the sentinel in the first step);
\* every search node has at most one predecessor.
C27_InstantiateOnePerCandidate ==
    [][(pc = "step" /\ pc' = "select") =>
          LET ids == hist'.instances
              parent == frame.selected
          IN /\ Len(ids) = Len(current_nodes)
             /\ Cardinality(Range(ids)) = Len(ids)
             /\ Range(ids) \cap DOMAIN collection = {}
             /\ DOMAIN collection' = DOMAIN collection \cup Range(ids)
             /\ \A i \in DOMAIN ids :
                   /\ collection'[ids[i]].node_id = ids[i]
                   /\ collection'[ids[i]].reference = current_nodes[i]
                   /\ collection'[ids[i]].out_nodes_ids = {}
                   /\ collection'[ids[i]].in_nodes_ids =
                         IF parent = NoNode THEN {} ELSE {parent.node_id}
                   /\ collection'[ids[i]].context_id =
                         IF parent = NoNode THEN INIT_CONTEXT_ID ELSE parent.context_id
             /\ parent # NoNode =>
                   /\ frame'.selected.out_nodes_ids = parent.out_nodes_ids \cup Range(ids)
                   /\ ids # <<>> =>
                         collection'[parent.node_id].out_nodes_ids =
                            parent.out_nodes_ids \cup Range(ids)
             /\ \A n \in DOMAIN collection' :
                   Cardinality(collection'[n].in_nodes_ids) <= 1]_vars

\* C27 witness: search node 1 has written, so its context_id is its own id, and
\* the next step has instantiated two candidates under it
C27_Witness ==
    /\ pc = "select"
    /\ hist.tested = <<>>
    /\ frame.selected.node_id = 1
    /\ frame.selected.context_id = 1
    /\ Len(hist.instances) = 2
    /\ \A i \in DOMAIN hist.instances :
          /\ collection[hist.instances[i]].context_id = 1
          /\ collection[hist.instances[i]].in_nodes_ids = {1}
          /\ hist.instances[i] \in frame.selected.out_nodes_ids

\* C28: after the evaluation phase of a step an instantiated candidate is in the
\* frontier exactly when the evaluator gave it a weight other than None (0 is a
\* weight), and its frontier weight and its persisted weight are that weight; a
\* candidate the evaluator gave None keeps no weight and is at no later point
\* open, tested or selected.
C28_OpenedIffWeighted ==
    [][/\ (pc = "step" /\ pc' = "select") =>
             \A i \in DOMAIN hist'.instances :
                LET n == hist'.instances[i]
                    weight == hist'.evaluations[i]
                IN /\ n \in Range(open_nodes') <=> weight # None
                   /\ collection'[n].weight = weight
                   /\ weight # None =>
                         /\ weights'[IndexOf(open_nodes', n)] = weight
                         /\ Cardinality({j \in DOMAIN open_nodes' : open_nodes'[j] = n}) = 1
       /\ \A n \in DOMAIN collection' :
             collection'[n].weight = None =>
                /\ n \notin Range(open_nodes')
                /\ n \notin Range(hist'.all_tested)
                /\ frame'.selected.node_id # n
       /\ \A n \in DOMAIN collection :
             collection[n].weight = None => collection'[n].weight = None]_vars

\* C28 witness: the evaluator gave the first candidate of the second step the
\* weight 0 and the second None: the first is open with weight 0, the second is not
C28_Witness ==
    /\ pc = "select"
    /\ hist.tested = <<>>
    /\ hist.instances = <<1, 2>>
    /\ hist.evaluations = <<0, None>>
    /\ open_nodes = <<1>>
    /\ weights = <<0>>
    /\ collection[1].weight = 0
    /\ collection[2].weight = None

\* C29: next_frame raises node_counter by exactly one, sets frame.context to the
\* scope registered under the selected node's context_id (to init for the
\* sentinel) and sets the counters of both namespaces to frame.node_counter and
\* to the size of the frontier; node_counter changes nowhere else, so it is the
\* number of completed steps.
C29_NextFrameCounters ==
    [][/\ (pc = "execute" /\ pc' # "execute") =>
             /\ pc' = "eval"
             /\ frame'.node_counter = frame.node_counter + 1
             /\ frame'.context =
                   IF frame.selected.context_id = INIT_CONTEXT_ID THEN <<INIT_REF>>
                   ELSE collections[frame.selected.context_id]
             /\ frame'.ro_builtins.node_counter = frame'.node_counter
             /\ frame'.w_builtins.node_counter = frame'.node_counter
             /\ frame'.ro_builtins.open_nodes_counter = Len(open_nodes')
             /\ frame'.w_builtins.open_nodes_counter = Len(open_nodes')
             /\ frame'.selected = frame.selected
       /\ ~(pc = "execute" /\ pc' # "execute") =>
             /\ frame'.node_counter = frame.node_counter
             /\ frame'.ro_builtins = frame.ro_builtins
             /\ frame'.w_builtins = frame.w_builtins
       /\ frame'.node_counter = hist'.executed - (IF pc' = "execute" THEN 1 ELSE 0)]_vars

\* C29 witness: the second step has ended; its selected node had written, so the
\* frame is on the scope registered under that node's id, and a candidate is
\* still open
C29_Witness ==
    /\ pc = "eval"
    /\ frame.node_counter = 2
    /\ hist.executed = 2
    /\ frame.selected.context_id = frame.selected.node_id
    /\ frame.selected.node_id \in DOMAIN collections
    /\ frame.context = collections[frame.selected.node_id]
    /\ frame.ro_builtins.node_counter = 2
    /\ frame.ro_builtins.open_nodes_counter = 1
    /\ Len(open_nodes) = 1

\* C30: after any sequence of open_node, close_node of open nodes and close_all,
\* open_nodes and weights have the same length, weights is ascending and
\* weights[i] is the weight open_nodes[i] was opened with; the size grows by one
\* with an open_node, drops by one with a close_node of an open node and is 0
\* after close_all, so get_len_open_nodes() is the opens minus the closes since
\* the last close_all.
C30_ParallelSortedLists ==
    [][/\ Len(weights') = Len(open_nodes')
       /\ \A i \in 1..(Len(weights') - 1) : weights'[i] <= weights'[i + 1]
       /\ \A i \in DOMAIN open_nodes' :
             /\ open_nodes'[i] \in DOMAIN collection'
             /\ weights'[i] = collection'[open_nodes'[i]].weight
       /\ result'.op = "open_node" => Len(open_nodes') = Len(open_nodes) + 1
       /\ (result'.op = "close_node" /\ result'.a \in Range(open_nodes)) =>
             Len(open_nodes') = Len(open_nodes) - 1
       /\ (result'.op = "close_node" /\ result'.a \notin Range(open_nodes)) =>
             Len(open_nodes') = Len(open_nodes)
       /\ result'.op = "close_all" => Len(open_nodes') = 0]_vars

\* C30 witness: after opens and a close of an open node two nodes are open, the
\* lighter of them opened later than the heavier
C30_Witness ==
    /\ result.op = "close_node"
    /\ ~result.raised
    /\ Len(open_nodes) = 2
    /\ weights[1] < weights[2]
    /\ open_nodes[1] > open_nodes[2]
    /\ Cardinality(DOMAIN collection) > 2

\* the (source, target) pairs of two lists of handles, sources outermost
Pairs(source_nodes, target_nodes) ==
    [k \in 1..(Len(source_nodes) * Len(target_nodes)) |->
        <<source_nodes[((k - 1) \div Len(target_nodes)) + 1],
          target_nodes[((k - 1) % Len(target_nodes)) + 1]>>]

RECURSIVE CallOnPairs(_, _, _, _)
\* create_relationship called on each pair of the sequence in turn, from pair k on
CallOnPairs(coll, hs, pairs, k) ==
    IF k > Len(pairs) THEN [collection |-> coll, handles |-> hs]
    ELSE LET made == CreateRelationship(coll, hs, pairs[k][1], pairs[k][2])
         IN CallOnPairs(made.collection, made.handles, pairs, k + 1)

\* C31: create_relationship is idempotent: right after create_relationship(A, B)
\* a second call on the same handles changes no handle and no persisted record;
\* and create_relationships(sources, targets) leaves what calling
\* create_relationship on every (source, target) pair leaves.
C31_RelationshipIdempotent ==
    [][/\ result'.op = "create_relationship" =>
             CreateRelationship(collection', handles', result'.a, result'.b) =
                [collection |-> collection', handles |-> handles']
       /\ result'.op = "create_relationships" =>
             /\ [collection |-> collection', handles |-> handles'] =
                   CallOnPairs(collection, handles, Pairs(result'.a, result'.b), 1)
             /\ CreateRelationships(collection', handles', result'.a, result'.b) =
                   [collection |-> collection', handles |-> handles']]_vars

\* C31 witness: create_relationships was called with two sources and two targets
\* on handles of two different nodes, and all four arcs are on the handles
C31_Witness ==
    /\ result.op = "create_relationships"
    /\ result.a = <<1, 2>>
    /\ result.b = <<1, 2>>
    /\ handles[1].node_id # handles[2].node_id
    /\ \A i \in 1..2 :
          /\ handles[i].out_nodes_ids = {handles[1].node_id, handles[2].node_id}
          /\ handles[i].in_nodes_ids = {handles[1].node_id, handles[2].node_id}

\* C32: in the chained store, after delete_scope of a registered scope get_scope
\* of its id fails with ScopeNotFoundError, and init and every other registered
\* scope (ancestor, sibling or descendant) return for every key what they
\* returned before; get_scope of an id that is not registered fails with
\* ScopeNotFoundError.
C32_DeleteRemovesOnlyThatScope ==
    [][/\ (result'.op = "delete_scope" /\ result'.a \in DOMAIN collections) =>
             /\ ~result'.raised
             /\ GetScope("chain", collections', result'.a).raised
             /\ init_map' = init_map
             /\ DOMAIN collections' = DOMAIN collections \ {result'.a}
             /\ \A other \in DOMAIN collections \ {result'.a}, key \in Keys :
                   /\ ~GetScope("chain", collections', other).raised
                   /\ HasRecord(init_map', maps', collections'[other], key) =
                         HasRecord(init_map, maps, collections[other], key)
                   /\ HasRecord(init_map, maps, collections[other], key) =>
                         GetRecord(init_map', maps', collections'[other], key) =
                            GetRecord(init_map, maps, collections[other], key)
       /\ \A scope_id \in ScopeIds :
             GetScope("chain", collections', scope_id).raised <=>
                scope_id \notin DOMAIN collections']_vars

\* C32 witness: a scope was deleted while a scope chained on it is registered and
\* reads a key from the layer of the deleted scope
C32_Witness ==
    /\ result.op = "delete_scope"
    /\ ~result.raised
    /\ \E other \in DOMAIN collections, key \in Keys :
          LET found == ChainFind(init_map, maps, collections[other], key, 1)
          IN /\ found > 1
             /\ collections[other][found] = result.b

\* C33: close_node of a node that is not open fails and removes nothing:
\* open_nodes and weights are after the failed call what they were before it,
\* whether the node's weight is below, among or above the weights of the
\* frontier, and when the frontier is empty.
C33_CloseOfClosedNodeFails ==
    [][(result'.op = "close_node" /\ result'.a \notin Range(open_nodes)) =>
          /\ result'.raised
          /\ open_nodes' = open_nodes
          /\ weights' = weights]_vars

\* C33 witness: a close_node failed on a node that is not open while a node of
\* the same weight, a lighter one and a heavier one are open
C33_Witness ==
    /\ result.op = "close_node"
    /\ result.raised
    /\ result.a \notin Range(open_nodes)
    /\ Len(weights) = 3
    /\ weights[1] < collection[result.a].weight
    /\ weights[2] = collection[result.a].weight
    /\ weights[3] > collection[result.a].weight

\* C34: when the evaluator, the test or the action raises during a step, the run
\* ends with the error: no step follows it, so nothing is retried and no other
\* capability runs; the raising step tests and selects no candidate, executes
\* nothing, closes nothing and leaves node_counter as it was.
C34_CapabilityErrorsPropagate ==
    [][/\ pc # "CapabilityError"
       /\ (result'.raised = "CapabilityError" /\ result.raised # "CapabilityError") =>
             /\ pc' = "CapabilityError"
             /\ frame'.node_counter = frame.node_counter
             /\ hist' = hist
             /\ open_nodes' = open_nodes
             /\ weights' = weights
             /\ pc # "step" => frame' = frame
             /\ storeVars' = storeVars]_vars

\* C34 witness: in the second step the test of the second candidate raised after
\* the first candidate had failed its test; the second is still open and the
\* run is over with node_counter 1
C34_Witness ==
    /\ pc = "CapabilityError"
    /\ result.raised = "CapabilityError"
    /\ frame.node_counter = 1
    /\ Len(hist.tested) = 1
    /\ ~hist.tested[1].passed
    /\ Len(open_nodes) = 1
    /\ hist.executed = 1

\* C35: after any calls of create_node, get_node and create_relationship between
\* the handles they returned, several of which may denote one node, the persisted
\* records are symmetric: B.id is in A's out-ids exactly when A.id is in B's in-ids.
C35_PersistedRelationshipsSymmetric ==
    \A A \in DOMAIN collection, B \in DOMAIN collection :
        (GetNode(collection, B).node_id \in GetNode(collection, A).out_nodes_ids)
            <=> (GetNode(collection, A).node_id \in GetNode(collection, B).in_nodes_ids)

\* C36: create_node with an explicit id returns and persists a node of exactly
\* that id, 0 included; without an id the node takes next_id(); in both cases
\* get_node of the returned id yields the node, and no id that was never stored
\* has a record.
C36_ExplicitIdIsKept ==
    [][result'.op = "create_node" =>
          LET node == handles'[result'.b]
          IN /\ result'.id # None => node.node_id = result'.id
             /\ result'.id = None => node.node_id = NextId(collection)
             /\ node.node_id \in DOMAIN collection'
             /\ GetNode(collection', node.node_id).node_id = node.node_id
             /\ DOMAIN collection' = DOMAIN collection \cup {node.node_id}]_vars

\* C37: with order_evaluation, the MAX selector, a fresh search space and
\* backtracking, between the steps the weights of a frontier of k nodes are
\* exactly 1..k; within a step the candidates instantiated by that step are
\* tested first, in the order they were generated, and older open candidates
\* only after all of them.
C37_DefaultSearchDepthFirst ==
    /\ pc \in {"eval", "step"} =>
          /\ Len(weights) = Len(open_nodes)
          /\ weights = [i \in 1..Len(open_nodes) |-> i]
    /\ pc \in {"select", "execute"} =>
          \A j \in DOMAIN hist.tested :
              IF j <= Len(hist.instances)
              THEN hist.tested[j].node_id = hist.instances[j]
              ELSE hist.tested[j].node_id \notin Range(hist.instances)

\* C37 witness: a step made two candidates, both failed their test in the order
\* they were made, and an older open candidate was tested third and passed
C37_Witness ==
    /\ pc = "execute"
    /\ Len(hist.instances) = 2
    /\ Len(hist.tested) = 3
    /\ hist.tested[1].node_id = hist.instances[1]
    /\ hist.tested[2].node_id = hist.instances[2]
    /\ hist.tested[3].passed
    /\ weights = [i \in 1..Len(open_nodes) |-> i]

\* C38: the predicate is asked before the budget is looked at. Where a step has
\* ended the next thing is the predicate's answer, and a true answer makes eval
\* return whatever node_counter is, max_nodes included; MaxNodesReachedError is
\* raised only with a budget set and reached, after the predicate answered false
\* at that count, and never with max_nodes None.
C38_PredicateBeforeBudget ==
    [][/\ pc = "eval" => pc' \in {"returned", "step"}
       /\ (pc = "eval" /\ hist'.solved) =>
             /\ pc' = "returned"
             /\ frame' = frame
       /\ pc' = "MaxNodesReachedError" =>
             /\ solver.max_nodes # None
             /\ frame.node_counter >= solver.max_nodes
             /\ ~hist.solved]_vars

\* C38 witness: with max_nodes = 2 the predicate became true at the end of the
\* second step and eval returned
C38_Witness ==
    /\ pc = "returned"
    /\ solver.max_nodes = 2
    /\ frame.node_counter = 2
    /\ hist.solved
    /\ hist.executed = 2

\* the search nodes that were selected and wrote through sput
Writers == {hist.writes[i].node_id : i \in {j \in DOMAIN hist.writes : ~hist.writes[j].global}}

\* context_id is the sentinel, or the id of node n or of one of its ancestors
\* and the id of a registered scope
ContextOnBranch(n, context_id) ==
    \/ context_id = INIT_CONTEXT_ID
    \/ /\ context_id \in AncestorsOrSelf(collection, n)
       /\ context_id \in DOMAIN collections

\* C39: in a run on the chained store without delete_scope, the context_id of
\* every search node, persisted or held by the frame, is the sentinel -1, the
\* node's own id or the id of one of its ancestors, and then a scope is
\* registered under it; next_frame does not fail with ScopeNotFoundError, the
\* first write of a node does not fail for a missing parent scope, and every
\* registered scope id is the id of a node that was selected and wrote.
C39_ContextIdsAreRegistered ==
    /\ \A n \in DOMAIN collection : ContextOnBranch(n, collection[n].context_id)
    /\ frame.selected # NoNode =>
          ContextOnBranch(frame.selected.node_id, frame.selected.context_id)
    /\ pc \notin {"ScopeNotFoundError", "KeyError"}
    /\ DOMAIN collections \subseteq Writers
    /\ Writers \subseteq Range(hist.all_tested)

\* C39 witness: a node wrote, its child was selected and wrote too, and the
\* next frame was entered on the scope of the child
C39_Witness ==
    /\ pc = "eval"
    /\ frame.node_counter = 2
    /\ Cardinality(DOMAIN collections) = 2
    /\ frame.selected.context_id = frame.selected.node_id
    /\ \E p \in frame.selected.in_nodes_ids : p \in DOMAIN collections

====
